---- MODULE Spec2Model ----
(***************************************************************************)
(* Gatekeeper: the request-time enforcement pipeline (IP blocklist,        *)
(* credential resolver, fixed-window rate limit, usage logging) and the    *)
(* admin operations that feed it (revoke, block, unblock).                 *)
(*                                                                         *)
(* Time is the epoch in whole seconds.  A request is a task; every action  *)
(* of a request is the code between two awaits, so that the store calls of *)
(* concurrent requests and admin calls interleave as they do in the        *)
(* asyncio server.  A key of the KV store with a TTL set at second t for   *)
(* ttl seconds is gone from second t + ttl on.                             *)
(***************************************************************************)
EXTENDS Integers, Sequences, FiniteSets, TLC

\* ---------------------------------------------------------------- bounds
MaxTime == 3
NReq == 3
NGateReq == 2
NAdm == 2
\* the block scenarios run on a coarser clock: seconds per tick, last second
BlockTick == 5
BlockHorizon == 10
\* the report scenarios look back a minute: seconds per tick, last second
ReportTick == 38
ReportHorizon == 78

\* longest stored block value, in symbols
MaxRawLen == 3

\* ------------------------------------------------------------ constants
BLOCK_EVENTS_MAX == 5000
RATE_LIMIT_REQUESTS == 10
RATE_LIMIT_WINDOW_SECONDS == 60

NULL == -1
NoTTL == -1
NoId == "none"
NoIp == "none"

Times == 0..(MaxTime + BlockHorizon)
ReqIds == 1..(IF NReq > NGateReq THEN NReq ELSE NGateReq)
RateReqs == 1..NReq
GateReqs == 1..NGateReq
AdmIds == 1..NAdm
KeyIds == {"k1"}
LocalhostIPs == {"127.0.0.1", "::1"}
IPs == {"ip1", "ip2", "127.0.0.1"}

\* ------------------------------------------------------------ app assembly
\* main.py: the only class middleware added to the app is RequestIdMiddleware.
MainMiddleware == {"request_id"}
\* The documented chain: IP blocklist -> request-id -> usage logging -> route.
ChainMiddleware == {"ip_blocklist", "request_id", "usage_logging"}

\* ------------------------------------------------------------ settings
\* The environment variables that switch the auto-block entry points.
EnvFlags == {"ENABLE_AUTO_BLOCK", "ALLOW_BLOCK_LOCALHOST"}
NoEnv == [v \in EnvFlags |-> "false"]

\* config.py: the fields class Settings declares, with their defaults.
SettingsFields ==
    [app_env |-> "local", app_host |-> "0.0.0.0", app_port |-> 8080,
     log_level |-> "INFO", postgres_host |-> "postgres", postgres_port |-> 5432,
     postgres_db |-> "gatekeeper", postgres_user |-> "gatekeeper",
     postgres_password |-> "gatekeeper", redis_host |-> "redis",
     redis_port |-> 6379, redis_db |-> 0]

\* settings = Settings(): a declared field takes the value of the variable
\* of its name; a variable that names no declared field is not read.
Settings(env) == SettingsFields

\* The settings object had the class declared the two flags the
\* configuration section documents.
SettingsWithFlags(env) ==
    [enable_auto_block |-> (env["ENABLE_AUTO_BLOCK"] = "true"),
     allow_block_localhost |-> (env["ALLOW_BLOCK_LOCALHOST"] = "true")]
        @@ SettingsFields

\* ------------------------------------------------------------ credential codec
\* A plaintext is a sequence of tokens; the fingerprint is an injective image
\* of it in another domain (a digest without collisions on the inputs used).
hash_key(plain) == <<"sha256", plain>>

KEY_PREFIX_LEN == 8

\* the whole plaintext kept as the prefix
key_prefix_Whole(plain) == plain

\* plain[:KEY_PREFIX_LEN]
key_prefix(plain) ==
    SubSeq(plain, 1, IF Len(plain) < KEY_PREFIX_LEN THEN Len(plain) ELSE KEY_PREFIX_LEN)

PlainK1 == <<"p1">>

\* ------------------------------------------------------------ header parsing
NoHeader == [present |-> FALSE, v |-> <<>>]
Hdr(s) == [present |-> TRUE, v |-> s]

\* authorization.startswith("Bearer ")
startswith_bearer(s) == Len(s) >= 1 /\ s[1] = "Bearer "

\* authorization.removeprefix("Bearer ")
removeprefix_bearer(s) == IF startswith_bearer(s) THEN Tail(s) ELSE s

RECURSIVE lstrip(_)
lstrip(s) == IF s # <<>> /\ Head(s) = " " THEN lstrip(Tail(s)) ELSE s

RECURSIVE rstrip(_)
rstrip(s) ==
    IF s # <<>> /\ s[Len(s)] = " " THEN rstrip(SubSeq(s, 1, Len(s) - 1)) ELSE s

\* the plaintext used as sent, not stripped
strip_Not(s) == s

\* str.strip()
strip(s) == rstrip(lstrip(s))

\* `not authorization or not authorization.startswith("Bearer ")`
header_missing(h) == ~h.present \/ h.v = <<>> \/ ~startswith_bearer(h.v)

\* ------------------------------------------------------------ rate limit engine
\* the window start left unaligned: a counter per second
window_start_unaligned(t, w) == t

\* window_start = now - (now % window_seconds)
window_start_of(t, w) == t - (t % w)

\* the difference passed on without the max(0, ...)
max0_Identity(x) == x

\* max(0, x)
max0(x) == IF x > 0 THEN x ELSE 0

\* the limit compared off by one: limit + 1 requests are allowed
RateLimitResult_OffByOne(count, limit, ws, w) ==
    [allowed |-> count <= limit + 1,
     limit |-> limit,
     remaining |-> max0(limit - count),
     reset_epoch |-> ws + w]

\* RateLimitResult for a post-increment count
RateLimitResult(count, limit, ws, w) ==
    [allowed |-> count <= limit,
     limit |-> limit,
     remaining |-> max0(limit - count),
     reset_epoch |-> ws + w]

\* getattr(api_key, "rate_limit", None) or settings.rate_limit_requests
per_key_limit(rec) ==
    IF rec.rate_limit # 0 THEN rec.rate_limit ELSE RATE_LIMIT_REQUESTS

\* getattr(api_key, "rate_window", None) or settings.rate_limit_window_seconds
per_key_window(rec) ==
    IF rec.rate_window # 0 THEN rec.rate_window ELSE RATE_LIMIT_WINDOW_SECONDS

\* ------------------------------------------------------------ state
VARIABLES
    now,          \* the clock, epoch seconds
    mw,           \* the middleware installed in the app
    environ,      \* the environment variables of the process
    settings,     \* the process settings object, read from the environment
    tenants,      \* relational store: the tenants
    api_keys,     \* relational store: the credentials
    usage_events, \* relational store: the usage rows, in insertion order
    rl,           \* KV store: rate-limit counters rl:<id>:<window_start>
    blk,          \* KV store: block entries blk:ip:<ip>
    blk_index,    \* KV store: sorted set blk:index, member -> score
    blk_events,   \* KV store: list blk:events, newest at head
    req,          \* the requests to the gateway routes
    adm           \* the calls of admin operations

vars == <<now, mw, environ, settings, tenants, api_keys, usage_events, rl, blk, blk_index, blk_events, req, adm>>

NoKeyRec == [id |-> NoId, tenant_id |-> NoId, key_hash |-> <<>>,
             key_prefix |-> <<>>,
             rate_limit |-> 0, rate_window |-> 0, revoked_at |-> NULL]

NoCounter == [count |-> 0, exp |-> NoTTL]

NoMeta == [block_id |-> 0, reason_code |-> "", reason |-> "",
           created_at_epoch |-> NULL, expires_at_epoch |-> NULL]

NoBlock == [present |-> FALSE, exp |-> NoTTL, meta |-> NoMeta]

\* no RateLimitResult: the engine was not consulted
NoResult == [allowed |-> FALSE, limit |-> 0, remaining |-> 0, reset_epoch |-> NULL]

\* the X-RateLimit-* headers of a response
NoRlHeaders == [present |-> FALSE, limit |-> 0, remaining |-> 0, reset |-> NULL]

RlHeaders(res) ==
    [present |-> TRUE, limit |-> res.limit, remaining |-> res.remaining,
     reset |-> res.reset_epoch]

IdleReq == [pc |-> "idle", ip |-> NoIp, hdr |-> NoHeader, path |-> "",
            method |-> "",
            state_api_key_id |-> NoId, state_tenant_id |-> NoId,
            api_key |-> NoKeyRec, ws |-> NULL,
            t_read |-> NULL, t_incr |-> NULL, count |-> 0,
            status |-> 0, detail |-> "", handler |-> FALSE,
            blk_check |-> "none", meta |-> NoMeta, retry_after |-> NULL,
            revoked_at_start |-> {}, block_id_start |-> 0,
            logged |-> FALSE, order |-> <<>>,
            t_arrive |-> NULL, successive |-> FALSE,
            result |-> NoResult, dep_headers |-> NoRlHeaders,
            headers |-> NoRlHeaders]

IdleAdm == [pc |-> "idle", op |-> "", key_id |-> NoId, ip |-> NoIp,
            ttl |-> 0, reason_code |-> "", reason |-> "", t |-> NULL,
            status |-> "", revoked_at |-> NULL, block_id |-> 0,
            created_at_epoch |-> NULL, expires_at_epoch |-> NULL,
            deleted |-> FALSE, removed_from_index |-> FALSE,
            t_write |-> NULL, after |-> {},
            dry_run |-> FALSE, include_localhost |-> FALSE,
            window_minutes |-> 0, min_unauth_401 |-> 0, limit |-> 0,
            suspects |-> <<>>, idx |-> 0, blocked |-> <<>>, skipped |-> <<>>,
            written |-> <<>>,
            lookback_minutes |-> 0, since_epoch |-> NULL, ips |-> <<>>,
            raw |-> NoBlock, ttl_read |-> NULL,
            active |-> <<>>, expired_recently |-> <<>>, stale |-> <<>>,
            removed |-> 0, reqs_done |-> {},
            x_admin_token |-> NoHeader, name |-> "", tenant_id |-> NoId,
            api_key |-> <<>>, key_prefix |-> <<>>, rows |-> {},
            rate_limit |-> 0, rate_window |-> 0, tier |-> "",
            requested_code |-> "", resp_reason_code |-> ""]

\* The tenant t1, created before the first step.
SeedTenants == {[id |-> "t1", name |-> "acme"]}

\* The credential k1 of tenant t1 with the limits an admin chose.
KeyRec(l, w) == [id |-> "k1", tenant_id |-> "t1", key_hash |-> hash_key(PlainK1),
                 key_prefix |-> key_prefix(PlainK1),
                 rate_limit |-> l, rate_window |-> w, revoked_at |-> NULL]

InitStores(l, w) ==
    /\ now = 0
    /\ environ = NoEnv
    /\ settings = Settings(environ)
    /\ tenants = SeedTenants
    /\ api_keys = [k \in KeyIds |-> KeyRec(l, w)]
    /\ usage_events = <<>>
    /\ rl = [c \in KeyIds \X Times |-> NoCounter]
    /\ blk = [i \in IPs |-> NoBlock]
    /\ blk_index = [i \in IPs |-> NULL]
    /\ blk_events = <<>>
    /\ req = [i \in ReqIds |-> IdleReq]
    /\ adm = [a \in AdmIds |-> IdleAdm]

\* ------------------------------------------------------------ KV store helpers
\* GET/EXISTS of a counter or block entry: expired keys are purged by Tick.
KeyOf(i) == <<req[i].api_key.id, req[i].ws>>

\* TTL command: seconds left; -1 no ttl, -2 not found
redis_ttl(present, exp) ==
    IF ~present THEN -2 ELSE IF exp = NoTTL THEN -1 ELSE exp - now

\* ------------------------------------------------------------ the gateway routes
ProtectedPaths == {"/protected", "/whoami"}

\* where a response goes on its way out of the route
ExitPc == IF "usage_logging" \in mw THEN "log" ELSE "done"

\* raise HTTPException(status_code, detail): no headers are given, and the
\* response is built from the exception
Reject(r, code, detail) ==
    [r EXCEPT !.pc = ExitPc, !.status = code, !.detail = detail,
              !.headers = NoRlHeaders]

\* GET /health
health(r) ==
    [r EXCEPT !.pc = ExitPc, !.status = 200, !.order = Append(@, "health")]

\* the revocation check left out
is_revoked_Never(rec) == FALSE

\* api_key.revoked_at is not None
is_revoked(rec) == rec.revoked_at # NULL

\* select(ApiKey).where(ApiKey.key_hash == hashed) ... scalar_one_or_none()
lookup_key(hashed) ==
    {k \in DOMAIN api_keys : api_keys[k].id # NoId /\ api_keys[k].key_hash = hashed}

\* require_client_key up to the call of r.incr: header checks, lookup,
\* request.state, revocation check, the clock read of fixed_window_limit.
require_client_key(r0) ==
    LET r == [r0 EXCEPT !.order = Append(@, "resolve")]
        plain == strip(removeprefix_bearer(r.hdr.v))
        found == lookup_key(hash_key(plain))
    IN IF header_missing(r.hdr)
       THEN Reject(r, 401, "Missing API key")
       ELSE IF plain = <<>>
       THEN Reject(r, 401, "Missing API key")
       ELSE IF found = {}
       THEN Reject(r, 401, "Invalid API key")
       ELSE LET k == CHOOSE x \in found : TRUE
                rec == api_keys[k]
                a == [r EXCEPT !.state_api_key_id = rec.id,
                               !.state_tenant_id = rec.tenant_id,
                               !.api_key = rec]
            IN IF is_revoked(rec)
               THEN Reject(a, 401, "Invalid API key")
               ELSE [a EXCEPT !.pc = "incr", !.t_read = now,
                              !.ws = window_start_of(now, per_key_window(rec))]

\* the blocklist consulted after the credential resolver has run
blocklist_get_AfterAuth(r) ==
    LET q == [require_client_key(r) EXCEPT !.order = Append(@, "blocklist")] IN
    IF r.ip = NoIp
    THEN [q EXCEPT !.blk_check = "skipped"]
    ELSE IF ~blk[r.ip].present
    THEN [q EXCEPT !.blk_check = "passed"]
    ELSE [q EXCEPT !.pc = "blk_ttl", !.blk_check = "hit", !.meta = blk[r.ip].meta]

\* the blocklist failing open: a hit is noted and the request goes on
blocklist_get_FailOpen(r) ==
    LET q == [r EXCEPT !.order = Append(@, "blocklist")] IN
    IF r.ip = NoIp
    THEN [q EXCEPT !.pc = "route", !.blk_check = "skipped"]
    ELSE IF ~blk[r.ip].present
    THEN [q EXCEPT !.pc = "route", !.blk_check = "passed"]
    ELSE [q EXCEPT !.pc = "route", !.blk_check = "hit", !.meta = blk[r.ip].meta]

\* IPBlocklistMiddleware.dispatch up to the result of r.get(key)
blocklist_get(r) ==
    LET q == [r EXCEPT !.order = Append(@, "blocklist")] IN
    IF r.ip = NoIp
    THEN [q EXCEPT !.pc = "route", !.blk_check = "skipped"]
    ELSE IF ~blk[r.ip].present
    THEN [q EXCEPT !.pc = "route", !.blk_check = "passed"]
    ELSE [q EXCEPT !.pc = "blk_ttl", !.blk_check = "hit", !.meta = blk[r.ip].meta]

\* the router: the route's dependencies and handler
route(r) ==
    IF r.path \in ProtectedPaths THEN require_client_key(r) ELSE health(r)

\* The request as it reaches the app, with what was true at that moment.
Arrived(i, ip, hdr, path) ==
    [IdleReq EXCEPT !.ip = ip, !.hdr = hdr, !.path = path, !.t_arrive = now,
                    !.method = "GET",
                    !.successive = \A j \in 1..(i - 1) : req[j].pc = "done",
                    !.revoked_at_start =
                        {k \in KeyIds : api_keys[k].revoked_at # NULL},
                    !.block_id_start =
                        IF ip # NoIp /\ blk[ip].present
                        THEN blk[ip].meta.block_id ELSE 0]

\* A request reaches the app and runs to the result of its first store call:
\* the blocklist lookup when IPBlocklistMiddleware is installed, else the
\* route.  Requests are numbered in arrival order.
Arrive(i, ip, hdr, path) ==
    /\ req[i].pc = "idle"
    /\ i > 1 => req[i - 1].pc # "idle"
    /\ req' = [req EXCEPT ![i] =
          IF "ip_blocklist" \in mw
          THEN blocklist_get(Arrived(i, ip, hdr, path))
          ELSE route(Arrived(i, ip, hdr, path))]
    /\ UNCHANGED <<now, mw, environ, settings, tenants, api_keys, usage_events, rl, blk, blk_index, blk_events, adm>>

\* IPBlocklistMiddleware.dispatch from r.ttl(key) to the 403 response
BlocklistReject(i) ==
    /\ req[i].pc = "blk_ttl"
    /\ LET ip == req[i].ip
           ttl == redis_ttl(blk[ip].present, blk[ip].exp)
       IN req' = [req EXCEPT ![i] =
               [@ EXCEPT !.pc = "done", !.status = 403,
                         !.detail = "IP temporarily blocked",
                         !.retry_after = IF ttl > 0 THEN ttl ELSE NULL]]
    /\ UNCHANGED <<now, mw, environ, settings, tenants, api_keys, usage_events, rl, blk, blk_index, blk_events, adm>>

\* call_next of IPBlocklistMiddleware: the request goes on to the route
Route(i) ==
    /\ req[i].pc = "route"
    /\ req' = [req EXCEPT ![i] = route(@)]
    /\ UNCHANGED <<now, mw, environ, settings, tenants, api_keys, usage_events, rl, blk, blk_index, blk_events, adm>>

\* the 429 decided on `remaining` instead of `allowed`
Respond_OnRemaining(r) ==
    LET res == RateLimitResult(r.count, per_key_limit(r.api_key),
                               r.ws, per_key_window(r.api_key))
        h == [r EXCEPT !.result = res, !.dep_headers = RlHeaders(res)]
    IN IF res.remaining = 0
       THEN Reject(h, 429, "Rate limit exceeded")
       ELSE [h EXCEPT !.pc = ExitPc, !.status = 200, !.handler = TRUE,
                      !.headers = h.dep_headers,
                      !.order = Append(@, "handler")]

\* require_client_key after fixed_window_limit has returned: the headers set
\* on the dependency's Response object, then the 429 or the route handler and
\* its 200.  The headers of that object are merged into the response the
\* handler returns; the response to a raised HTTPException is built from the
\* exception, which is raised without headers.
Respond(r) ==
    LET res == RateLimitResult(r.count, per_key_limit(r.api_key),
                               r.ws, per_key_window(r.api_key))
        h == [r EXCEPT !.result = res, !.dep_headers = RlHeaders(res)]
    IN IF ~res.allowed
       THEN Reject(h, 429, "Rate limit exceeded")
       ELSE [h EXCEPT !.pc = ExitPc, !.status = 200, !.handler = TRUE,
                      !.headers = h.dep_headers,
                      !.order = Append(@, "handler")]

\* every increment followed by r.expire(redis_key, window_seconds)
Incr_AlwaysExpire(i) ==
    /\ req[i].pc = "incr"
    /\ LET c == rl[KeyOf(i)].count + 1
           r == [req[i] EXCEPT !.count = c, !.t_incr = now,
                               !.order = Append(@, "incr")]
       IN /\ rl' = [rl EXCEPT ![KeyOf(i)] =
                [count |-> c, exp |-> now + per_key_window(req[i].api_key)]]
          /\ req' = [req EXCEPT ![i] = Respond(r)]
    /\ UNCHANGED <<now, mw, environ, settings, tenants, api_keys, usage_events, blk, blk_index, blk_events, adm>>

\* count = await r.incr(redis_key); when count is not 1 the engine returns
Incr(i) ==
    /\ req[i].pc = "incr"
    /\ LET c == rl[KeyOf(i)].count + 1
           r == [req[i] EXCEPT !.count = c, !.t_incr = now,
                               !.order = Append(@, "incr")]
       IN /\ rl' = [rl EXCEPT ![KeyOf(i)].count = c]
          /\ req' = [req EXCEPT ![i] =
                IF c = 1 THEN [r EXCEPT !.pc = "expire"] ELSE Respond(r)]
    /\ UNCHANGED <<now, mw, environ, settings, tenants, api_keys, usage_events, blk, blk_index, blk_events, adm>>

\* the counter started again at 0 when its TTL is set
Expire_Restart(i) ==
    /\ req[i].pc = "expire"
    /\ rl' = [rl EXCEPT ![KeyOf(i)] =
                 [count |-> 0, exp |-> now + per_key_window(req[i].api_key)]]
    /\ req' = [req EXCEPT ![i] = Respond(@)]
    /\ UNCHANGED <<now, mw, environ, settings, tenants, api_keys, usage_events, blk, blk_index, blk_events, adm>>

\* if count == 1: await r.expire(redis_key, window_seconds); the engine returns
Expire(i) ==
    /\ req[i].pc = "expire"
    /\ rl' = [rl EXCEPT ![KeyOf(i)].exp =
                 IF rl[KeyOf(i)].count > 0
                 THEN now + per_key_window(req[i].api_key) ELSE @]
    /\ req' = [req EXCEPT ![i] = Respond(@)]
    /\ UNCHANGED <<now, mw, environ, settings, tenants, api_keys, usage_events, blk, blk_index, blk_events, adm>>

\* The request is cancelled (the client went away) while it awaits
\* r.expire: the call is not made and no response is produced.
Cancel(i) ==
    /\ req[i].pc = "expire"
    /\ req' = [req EXCEPT ![i] = [@ EXCEPT !.pc = "done", !.detail = "cancelled"]]
    /\ UNCHANGED <<now, mw, environ, settings, tenants, api_keys, usage_events, rl, blk, blk_index, blk_events, adm>>

\* r.expire raises (the KV store is unreachable): nothing in
\* fixed_window_limit or require_client_key catches it, the server answers 500
ExpireFails(i) ==
    /\ req[i].pc = "expire"
    /\ req' = [req EXCEPT ![i] =
          [@ EXCEPT !.pc = ExitPc, !.status = 500, !.detail = "Internal Server Error",
                    !.order = Append(@, "kv_error")]]
    /\ UNCHANGED <<now, mw, environ, settings, tenants, api_keys, usage_events, rl, blk, blk_index, blk_events, adm>>

\* the limiter failing open: an error of r.incr lets the request through
IncrFails_FailOpen(i) ==
    /\ req[i].pc = "incr"
    /\ req' = [req EXCEPT ![i] =
          [@ EXCEPT !.pc = ExitPc, !.status = 200, !.handler = TRUE,
                    !.order = Append(Append(@, "kv_error"), "handler")]]
    /\ UNCHANGED <<now, mw, environ, settings, tenants, api_keys, usage_events, rl, blk, blk_index, blk_events, adm>>

\* r.incr raises (the KV store is unreachable): nothing in
\* fixed_window_limit or require_client_key catches it, the dependency does
\* not return, the route handler is not called and the server answers 500
IncrFails(i) ==
    /\ req[i].pc = "incr"
    /\ req' = [req EXCEPT ![i] =
          [@ EXCEPT !.pc = ExitPc, !.status = 500, !.detail = "Internal Server Error",
                    !.order = Append(@, "kv_error")]]
    /\ UNCHANGED <<now, mw, environ, settings, tenants, api_keys, usage_events, rl, blk, blk_index, blk_events, adm>>

\* r.get(key) of IPBlocklistMiddleware.dispatch raises: dispatch has no
\* try, call_next is not reached and the server answers 500
BlocklistGetFails(i, ip, hdr, path) ==
    /\ req[i].pc = "idle"
    /\ i > 1 => req[i - 1].pc # "idle"
    /\ "ip_blocklist" \in mw
    /\ ip # NoIp
    /\ req' = [req EXCEPT ![i] =
          [Arrived(i, ip, hdr, path) EXCEPT
              !.pc = "done", !.status = 500, !.detail = "Internal Server Error",
              !.blk_check = "failed",
              !.order = Append(Append(@, "blocklist"), "kv_error")]]
    /\ UNCHANGED <<now, mw, environ, settings, tenants, api_keys, usage_events, rl, blk, blk_index, blk_events, adm>>

\* r.ttl(key) of IPBlocklistMiddleware.dispatch raises: no 403 is built
BlocklistTtlFails(i) ==
    /\ req[i].pc = "blk_ttl"
    /\ req' = [req EXCEPT ![i] =
          [@ EXCEPT !.pc = "done", !.status = 500, !.detail = "Internal Server Error",
                    !.order = Append(@, "kv_error")]]
    /\ UNCHANGED <<now, mw, environ, settings, tenants, api_keys, usage_events, rl, blk, blk_index, blk_events, adm>>

\* latency_ms = int((time.perf_counter() - start) * 1000), on the seconds clock
latency_ms(start, end) == (end - start) * 1000

\* `if tenant_id and api_key_id`, and the path is not /health
usage_written(r) ==
    /\ r.state_tenant_id # NoId
    /\ r.state_api_key_id # NoId
    /\ r.path \notin {"/health"}

\* The finally block when db.add / db.commit raises: nothing in dispatch
\* catches the error, so it leaves the finally block in place of the
\* response being returned and the server answers 500.
UsageLogFails(i) ==
    /\ req[i].pc = "log"
    /\ usage_written(req[i])
    /\ req' = [req EXCEPT ![i] =
          [@ EXCEPT !.pc = "done", !.status = 500,
                    !.detail = "Internal Server Error"]]
    /\ UNCHANGED <<now, mw, environ, settings, tenants, api_keys, usage_events, rl, blk, blk_index, blk_events, adm>>

\* UsageLoggingMiddleware.dispatch, the finally block
UsageLog(i) ==
    /\ req[i].pc = "log"
    /\ LET r == req[i]
           write == usage_written(r)
       IN /\ usage_events' =
                IF write
                THEN Append(usage_events,
                        [tenant_id |-> r.state_tenant_id,
                         api_key_id |-> r.state_api_key_id,
                         method |-> r.method,
                         path |-> r.path, status_code |-> r.status,
                         latency_ms |-> latency_ms(r.t_arrive, now),
                         ts |-> now,
                         client_ip |-> r.ip, request |-> i])
                ELSE usage_events
          /\ req' = [req EXCEPT ![i] =
                [@ EXCEPT !.pc = "done", !.logged = write,
                          !.order = IF write THEN Append(@, "usage") ELSE @]]
    /\ UNCHANGED <<now, mw, environ, settings, tenants, api_keys, rl, blk, blk_index, blk_events, adm>>

\* ------------------------------------------------------------ the clock
\* d seconds pass; keys of the KV store whose TTL has run out are gone.
Tick(d, horizon) ==
    /\ now + d <= horizon
    /\ now' = now + d
    /\ rl' = [c \in DOMAIN rl |->
                IF rl[c].exp # NoTTL /\ rl[c].exp <= now + d
                THEN NoCounter ELSE rl[c]]
    /\ blk' = [i \in IPs |->
                IF blk[i].present /\ blk[i].exp # NoTTL /\ blk[i].exp <= now + d
                THEN NoBlock ELSE blk[i]]
    /\ UNCHANGED <<mw, environ, settings, tenants, api_keys, usage_events, blk_index, blk_events, req, adm>>

\* ------------------------------------------------------------ admin operations
ALLOWED_REASON_CODES ==
    {"manual", "operator_action", "auto_unauth_401_surge", "one_click_suspects"}

\* An admin call starts.  Calls are numbered in the order they start.
Begin(a) ==
    /\ adm[a].pc = "idle"
    /\ a > 1 => adm[a - 1].pc # "idle"

Begun(a, op) ==
    [adm[a] EXCEPT !.op = op, !.t = now,
                   !.after = {b \in AdmIds : adm[b].pc = "done"}]

\* db.get(ApiKey, key_id) finds a row
KeyExists(k) == k \in DOMAIN api_keys /\ api_keys[k].id # NoId

\* revoke_api_key up to the result of db.get(ApiKey, key_id)
RevokeGet(a, k) ==
    /\ Begin(a)
    /\ LET c == [Begun(a, "revoke") EXCEPT !.key_id = k] IN
       IF ~KeyExists(k)
       THEN adm' = [adm EXCEPT ![a] = [c EXCEPT !.pc = "done", !.status = "404"]]
       ELSE IF api_keys[k].revoked_at # NULL
       THEN adm' = [adm EXCEPT ![a] =
               [c EXCEPT !.pc = "done", !.status = "already_revoked",
                         !.revoked_at = api_keys[k].revoked_at]]
       ELSE adm' = [adm EXCEPT ![a] = [c EXCEPT !.pc = "revoke_commit"]]
    /\ UNCHANGED <<now, mw, environ, settings, tenants, api_keys, usage_events, rl, blk, blk_index, blk_events, req>>

\* api_key.revoked_at = now; await db.commit()
RevokeCommit(a) ==
    /\ adm[a].pc = "revoke_commit"
    /\ api_keys' = [api_keys EXCEPT ![adm[a].key_id].revoked_at = adm[a].t]
    /\ adm' = [adm EXCEPT ![a] =
          [@ EXCEPT !.pc = "done", !.status = "revoked", !.revoked_at = adm[a].t]]
    /\ UNCHANGED <<now, mw, environ, settings, tenants, usage_events, rl, blk, blk_index, blk_events, req>>

\* set_key_limits: the payload is validated 1..1_000_000 and 1..86_400
set_key_limits(a, k, l, w) ==
    /\ Begin(a)
    /\ l >= 1 /\ w >= 1
    /\ LET c == [Begun(a, "limits") EXCEPT !.key_id = k, !.pc = "done"] IN
       IF ~KeyExists(k)
       THEN /\ adm' = [adm EXCEPT ![a] = [c EXCEPT !.status = "404"]]
            /\ UNCHANGED api_keys
       ELSE /\ api_keys' = [api_keys EXCEPT ![k].rate_limit = l, ![k].rate_window = w]
            /\ adm' = [adm EXCEPT ![a] = [c EXCEPT !.status = "ok"]]
    /\ UNCHANGED <<now, mw, environ, settings, tenants, usage_events, rl, blk, blk_index, blk_events, req>>

\* the plans a credential can be put on
TIERS ==
    [free |-> [rate_limit |-> 10, rate_window |-> 60],
     pro |-> [rate_limit |-> 120, rate_window |-> 60],
     enterprise |-> [rate_limit |-> 600, rate_window |-> 60]]

\* payload.tier.lower().strip(), on the spellings a caller sends
lower_strip(tier) ==
    CASE tier = "Pro " -> "pro"
      [] tier = " FREE" -> "free"
      [] OTHER -> tier

\* set_key_tier up to the result of db.get(ApiKey, key_id)
SetTierGet(a, k, tier) ==
    /\ Begin(a)
    /\ LET t == lower_strip(tier)
           c == [Begun(a, "tier") EXCEPT !.key_id = k, !.tier = t] IN
       IF t \notin DOMAIN TIERS
       THEN adm' = [adm EXCEPT ![a] = [c EXCEPT !.pc = "done", !.status = "400"]]
       ELSE IF ~KeyExists(k)
       THEN adm' = [adm EXCEPT ![a] = [c EXCEPT !.pc = "done", !.status = "404"]]
       ELSE IF api_keys[k].revoked_at # NULL
       THEN adm' = [adm EXCEPT ![a] = [c EXCEPT !.pc = "done", !.status = "409"]]
       ELSE adm' = [adm EXCEPT ![a] = [c EXCEPT !.pc = "tier_commit"]]
    /\ UNCHANGED <<now, mw, environ, settings, tenants, api_keys, usage_events, rl, blk, blk_index, blk_events, req>>

\* api_key.rate_limit, api_key.rate_window = TIERS[tier]; await db.commit()
SetTierCommit(a) ==
    /\ adm[a].pc = "tier_commit"
    /\ LET k == adm[a].key_id
           plan == TIERS[adm[a].tier] IN
       /\ api_keys' = [api_keys EXCEPT ![k].rate_limit = plan.rate_limit,
                                        ![k].rate_window = plan.rate_window]
       /\ adm' = [adm EXCEPT ![a] =
             [@ EXCEPT !.pc = "done", !.status = "ok",
                       !.rate_limit = plan.rate_limit, !.rate_window = plan.rate_window]]
    /\ UNCHANGED <<now, mw, environ, settings, tenants, usage_events, rl, blk, blk_index, blk_events, req>>

\* the event pushed without the trim
push_block_event_NoTrim(events, ev) == <<ev>> \o events

\* _push_block_event: LPUSH newest, LTRIM to the cap
push_block_event(events, ev) ==
    LET pushed == <<ev>> \o events
    IN SubSeq(pushed, 1, IF Len(pushed) < BLOCK_EVENTS_MAX
                         THEN Len(pushed) ELSE BLOCK_EVENTS_MAX)

\* _make_block_payload
make_block_payload(block_id, reason_code, reason, created, expires) ==
    [block_id |-> block_id,
     reason_code |-> IF reason_code \in ALLOWED_REASON_CODES
                     THEN reason_code ELSE "manual",
     reason |-> reason,
     created_at_epoch |-> created, expires_at_epoch |-> expires]

\* the requested reason code used as it came
BlockBegin_AsRequested(a, ip, ttl, reason_code) ==
    /\ Begin(a)
    /\ adm' = [adm EXCEPT ![a] =
          [Begun(a, "block") EXCEPT
              !.pc = "block_write", !.ip = ip, !.ttl = ttl, !.reason = "x",
              !.requested_code = reason_code,
              !.reason_code = reason_code,
              !.block_id = a,
              !.created_at_epoch = now, !.expires_at_epoch = now + ttl]]
    /\ UNCHANGED <<now, mw, environ, settings, tenants, api_keys, usage_events, rl, blk, blk_index, blk_events, req>>

\* block_ip up to the pipeline: the clock read and the payload
BlockBegin(a, ip, ttl, reason_code) ==
    /\ Begin(a)
    /\ adm' = [adm EXCEPT ![a] =
          [Begun(a, "block") EXCEPT
              !.pc = "block_write", !.ip = ip, !.ttl = ttl, !.reason = "x",
              !.requested_code = reason_code,
              !.reason_code = IF reason_code \in ALLOWED_REASON_CODES
                              THEN reason_code ELSE "manual",
              !.block_id = a,
              !.created_at_epoch = now, !.expires_at_epoch = now + ttl]]
    /\ UNCHANGED <<now, mw, environ, settings, tenants, api_keys, usage_events, rl, blk, blk_index, blk_events, req>>

\* the block entry written without its TTL
BlockWrite_NoTTL(a) ==
    /\ adm[a].pc = "block_write"
    /\ LET c == adm[a] IN
       /\ blk' = [blk EXCEPT ![c.ip] =
             [present |-> TRUE, exp |-> NoTTL,
              meta |-> make_block_payload(c.block_id, c.reason_code, c.reason,
                                          c.created_at_epoch, c.expires_at_epoch)]]
       /\ blk_index' = [blk_index EXCEPT ![c.ip] = c.expires_at_epoch]
    /\ adm' = [adm EXCEPT ![a] = [@ EXCEPT !.pc = "block_event", !.t_write = now]]
    /\ UNCHANGED <<now, mw, environ, settings, tenants, api_keys, usage_events, rl, blk_events, req>>

\* pipe.set(key, value, ex=ttl); pipe.zadd(index, {ip: expires}); execute
BlockWrite(a) ==
    /\ adm[a].pc = "block_write"
    /\ LET c == adm[a] IN
       /\ blk' = [blk EXCEPT ![c.ip] =
             [present |-> TRUE, exp |-> now + c.ttl,
              meta |-> make_block_payload(c.block_id, c.reason_code, c.reason,
                                          c.created_at_epoch, c.expires_at_epoch)]]
       /\ blk_index' = [blk_index EXCEPT ![c.ip] = c.expires_at_epoch]
    /\ adm' = [adm EXCEPT ![a] = [@ EXCEPT !.pc = "block_event", !.t_write = now]]
    /\ UNCHANGED <<now, mw, environ, settings, tenants, api_keys, usage_events, rl, blk_events, req>>

\* the block event of block_ip, then r.ttl(key) and the response
BlockEvent(a) ==
    /\ adm[a].pc = "block_event"
    /\ LET c == adm[a] IN
       blk_events' = push_block_event(blk_events,
           [event_type |-> "block", client_ip |-> c.ip, block_id |-> c.block_id,
            reason_code |-> c.reason_code,
            expires_at_epoch |-> c.expires_at_epoch, actor |-> "admin_api"])
    /\ adm' = [adm EXCEPT ![a] =
          [@ EXCEPT !.pc = "done", !.status = "blocked",
                    !.resp_reason_code = adm[a].reason_code]]
    /\ UNCHANGED <<now, mw, environ, settings, tenants, api_keys, usage_events, rl, blk, blk_index, req>>

\* _push_block_event raises (the KV store is unreachable), or the request is
\* cancelled while block_ip awaits it: block_ip has no try around the push
\* and nothing undoes the pipeline that has already executed
BlockEventFails(a) ==
    /\ adm[a].pc = "block_event"
    /\ adm' = [adm EXCEPT ![a] = [@ EXCEPT !.pc = "done", !.status = "500"]]
    /\ UNCHANGED <<now, mw, environ, settings, tenants, api_keys, usage_events, rl, blk, blk_index, blk_events, req>>

\* the index member removed and the block entry left in place
UnblockWrite_IndexOnly(a, ip) ==
    /\ Begin(a)
    /\ blk_index' = [blk_index EXCEPT ![ip] = NULL]
    /\ adm' = [adm EXCEPT ![a] =
          [Begun(a, "unblock") EXCEPT
              !.pc = "unblock_event", !.ip = ip, !.t_write = now,
              !.deleted = blk[ip].present,
              !.removed_from_index = (blk_index[ip] # NULL)]]
    /\ UNCHANGED <<now, mw, environ, settings, tenants, api_keys, usage_events, rl, blk, blk_events, req>>

\* unblock_ip: pipe.delete(key); pipe.zrem(index, ip); execute
UnblockWrite(a, ip) ==
    /\ Begin(a)
    /\ blk' = [blk EXCEPT ![ip] = NoBlock]
    /\ blk_index' = [blk_index EXCEPT ![ip] = NULL]
    /\ adm' = [adm EXCEPT ![a] =
          [Begun(a, "unblock") EXCEPT
              !.pc = "unblock_event", !.ip = ip, !.t_write = now,
              !.deleted = blk[ip].present,
              !.removed_from_index = (blk_index[ip] # NULL)]]
    /\ UNCHANGED <<now, mw, environ, settings, tenants, api_keys, usage_events, rl, blk_events, req>>

\* the unblock event and the response of unblock_ip
UnblockEvent(a) ==
    /\ adm[a].pc = "unblock_event"
    /\ LET c == adm[a] IN
       blk_events' = push_block_event(blk_events,
           [event_type |-> "unblock", client_ip |-> c.ip, block_id |-> 0,
            reason_code |-> "", expires_at_epoch |-> NULL, actor |-> "admin_api"])
    /\ adm' = [adm EXCEPT ![a] = [@ EXCEPT !.pc = "done", !.status = "unblocked"]]
    /\ UNCHANGED <<now, mw, environ, settings, tenants, api_keys, usage_events, rl, blk, blk_index, req>>

\* ------------------------------------------------------------ tenants and credentials
\* default=uuid.uuid4: an id no other row has, one per creating call
uuid4(prefix, a) ==
    IF prefix = "tenant"
    THEN CASE a = 1 -> "tn1" [] a = 2 -> "tn2" [] a = 3 -> "tn3" [] OTHER -> "tn4"
    ELSE CASE a = 1 -> "kn1" [] a = 2 -> "kn2" [] a = 3 -> "kn3" [] OTHER -> "kn4"

NewKeyIds == {uuid4("key", a) : a \in AdmIds}

\* select(Tenant).where(Tenant.name == name)
tenants_named(name) == {t \in tenants : t.name = name}

\* create_tenant up to the result of the select by name
CreateTenantSelect(a, name) ==
    /\ Begin(a)
    /\ LET c == [Begun(a, "create_tenant") EXCEPT !.name = name] IN
       IF tenants_named(name) # {}
       THEN adm' = [adm EXCEPT ![a] = [c EXCEPT !.pc = "done", !.status = "409"]]
       ELSE adm' = [adm EXCEPT ![a] = [c EXCEPT !.pc = "tenant_commit"]]
    /\ UNCHANGED <<now, mw, environ, settings, tenants, api_keys, usage_events, rl, blk, blk_index, blk_events, req>>

\* db.add(tenant); await db.commit(): the INSERT fails on the unique name
\* column when a row with the name has appeared; nothing catches the error
CreateTenantCommit(a) ==
    /\ adm[a].pc = "tenant_commit"
    /\ IF tenants_named(adm[a].name) # {}
       THEN /\ adm' = [adm EXCEPT ![a] = [@ EXCEPT !.pc = "done", !.status = "500"]]
            /\ UNCHANGED tenants
       ELSE /\ tenants' = tenants \cup {[id |-> uuid4("tenant", a), name |-> adm[a].name]}
            /\ adm' = [adm EXCEPT ![a] =
                  [@ EXCEPT !.pc = "done", !.status = "200",
                            !.tenant_id = uuid4("tenant", a)]]
    /\ UNCHANGED <<now, mw, environ, settings, api_keys, usage_events, rl, blk, blk_index, blk_events, req>>

\* secrets.token_urlsafe(32): a random text longer than KEY_PREFIX_LEN
GeneratedKeys ==
    {<<"a", "b", "c", "d", "e", "f", "g", "h", "1">>,
     <<"a", "b", "c", "d", "e", "f", "g", "h", "2">>}

\* create_api_key up to the result of db.get(Tenant, tenant_id)
CreateKeyGetTenant(a, tenant_id) ==
    /\ Begin(a)
    /\ LET c == [Begun(a, "create_key") EXCEPT !.tenant_id = tenant_id] IN
       IF \A t \in tenants : t.id # tenant_id
       THEN adm' = [adm EXCEPT ![a] = [c EXCEPT !.pc = "done", !.status = "404"]]
       ELSE adm' = [adm EXCEPT ![a] = [c EXCEPT !.pc = "key_select"]]
    /\ UNCHANGED <<now, mw, environ, settings, tenants, api_keys, usage_events, rl, blk, blk_index, blk_events, req>>

\* plain = generate_plaintext_key(); the select by key_hash
CreateKeySelect(a, plain) ==
    /\ adm[a].pc = "key_select"
    /\ IF lookup_key(hash_key(plain)) # {}
       THEN adm' = [adm EXCEPT ![a] = [@ EXCEPT !.pc = "done", !.status = "500"]]
       ELSE adm' = [adm EXCEPT ![a] =
               [@ EXCEPT !.pc = "key_commit", !.api_key = plain]]
    /\ UNCHANGED <<now, mw, environ, settings, tenants, api_keys, usage_events, rl, blk, blk_index, blk_events, req>>

\* ApiKey(...); db.add; await db.commit(); the response with the plaintext.
\* key_hash is unique: the INSERT fails when the hash has appeared.
CreateKeyCommit(a) ==
    /\ adm[a].pc = "key_commit"
    /\ LET plain == adm[a].api_key
           id == uuid4("key", a) IN
       IF lookup_key(hash_key(plain)) # {}
       THEN /\ adm' = [adm EXCEPT ![a] =
                  [@ EXCEPT !.pc = "done", !.status = "500", !.api_key = <<>>]]
            /\ UNCHANGED api_keys
       ELSE /\ api_keys' = [api_keys EXCEPT ![id] =
                  [id |-> id, tenant_id |-> adm[a].tenant_id,
                   key_hash |-> hash_key(plain), key_prefix |-> key_prefix(plain),
                   rate_limit |-> 10, rate_window |-> 60, revoked_at |-> NULL]]
            /\ adm' = [adm EXCEPT ![a] =
                  [@ EXCEPT !.pc = "done", !.status = "200", !.key_id = id,
                            !.key_prefix = key_prefix(plain)]]
    /\ UNCHANGED <<now, mw, environ, settings, tenants, usage_events, rl, blk, blk_index, blk_events, req>>

\* list_api_keys: the fields of each row that go into the response
list_api_keys(a, tenant_id) ==
    /\ Begin(a)
    /\ adm' = [adm EXCEPT ![a] =
          [Begun(a, "list_keys") EXCEPT
              !.pc = "done", !.status = "200", !.tenant_id = tenant_id,
              !.rows = {[id |-> api_keys[k].id,
                         key_prefix |-> api_keys[k].key_prefix,
                         revoked_at |-> api_keys[k].revoked_at,
                         rate_limit |-> api_keys[k].rate_limit,
                         rate_window |-> api_keys[k].rate_window] :
                        k \in {x \in DOMAIN api_keys :
                                 KeyExists(x) /\ api_keys[x].tenant_id = tenant_id}}]]
    /\ UNCHANGED <<now, mw, environ, settings, tenants, api_keys, usage_events, rl, blk, blk_index, blk_events, req>>


\* getattr on the settings object: a field the class does not declare raises
\* AttributeError, which the server answers as 500.
hasattr_settings(name) == name \in DOMAIN settings

\* ------------------------------------------------------------ admin authentication
\* the ADMIN_TOKEN the deployment exports
ConfiguredAdminToken == <<"secret">>

\* the routes of the admin router; each depends on require_admin
AdminOps ==
    {"create_tenant", "create_key", "revoke", "list_keys", "limits", "tier",
     "suspects", "block", "unblock", "report", "auto_block", "one_click"}

\* require_admin: `not x_admin_token` is decided first; only a non-empty
\* header makes the comparison read settings.admin_token, which raises when
\* the class does not declare the field (the call is then answered 500)
require_admin(x_admin_token) ==
    IF ~x_admin_token.present \/ x_admin_token.v = <<>> THEN "401"
    ELSE IF ~hasattr_settings("admin_token") THEN "500"
    ELSE IF x_admin_token.v # settings.admin_token THEN "401"
    ELSE "pass"

\* An admin call stopped by its require_admin dependency: the handler of the
\* route does not run.
AdminGuard(a, op, x_admin_token) ==
    /\ Begin(a)
    /\ require_admin(x_admin_token) # "pass"
    /\ adm' = [adm EXCEPT ![a] =
          [Begun(a, op) EXCEPT !.pc = "done", !.x_admin_token = x_admin_token,
                               !.status = require_admin(x_admin_token)]]
    /\ UNCHANGED <<now, mw, environ, settings, tenants, api_keys, usage_events, rl, blk, blk_index, blk_events, req>>


\* ------------------------------------------------------------ abuse detection
SeqRange(q) == {q[n] : n \in DOMAIN q}

clamp(x, lo, hi) == IF x < lo THEN lo ELSE IF x > hi THEN hi ELSE x

\* base_where: tenant_id IS NULL, status_code = 401, from_ts <= ts <= to_ts
unauth_401_rows(from_ts, to_ts) ==
    {n \in DOMAIN usage_events :
        /\ usage_events[n].tenant_id = NoId
        /\ usage_events[n].status_code = 401
        /\ usage_events[n].ts >= from_ts
        /\ usage_events[n].ts <= to_ts}

\* func.count() of the group of one client_ip
unauth_401_count(ip, from_ts, to_ts) ==
    Cardinality({n \in unauth_401_rows(from_ts, to_ts) :
                    usage_events[n].client_ip = ip})

\* group_by(client_ip).having(count >= min_unauth_401)
suspect_ips(min_unauth_401, from_ts, to_ts) ==
    {ip \in IPs : unauth_401_count(ip, from_ts, to_ts) >= min_unauth_401}

\* order_by(count desc).limit(limit): every order the counts allow
suspect_lists(min_unauth_401, from_ts, to_ts, limit) ==
    LET S == suspect_ips(min_unauth_401, from_ts, to_ts)
        n == Cardinality(S)
        cnt(ip) == unauth_401_count(ip, from_ts, to_ts)
        orders == {f \in [1..n -> S] :
                      /\ \A x, y \in 1..n : x # y => f[x] # f[y]
                      /\ \A x, y \in 1..n : x < y => cnt(f[x]) >= cnt(f[y])}
    IN {[x \in 1..(IF n < limit THEN n ELSE limit) |->
            [client_ip |-> f[x], unauth_401_count |-> cnt(f[x])]] : f \in orders}

\* abuse_suspects: the query parameters are clamped, the suspects returned
abuse_suspects(a, window_minutes, min_unauth_401, limit) ==
    /\ Begin(a)
    /\ LET wm == clamp(window_minutes, 1, 24 * 60)
           mn == clamp(min_unauth_401, 1, 1000000)
           lim == clamp(limit, 1, 200)
       IN \E list \in suspect_lists(mn, now - wm * 60, now, lim) :
            adm' = [adm EXCEPT ![a] =
                [Begun(a, "suspects") EXCEPT
                    !.pc = "done", !.status = "200",
                    !.reqs_done = {i \in ReqIds : req[i].pc = "done"},
                    !.window_minutes = wm, !.min_unauth_401 = mn, !.limit = lim,
                    !.suspects = list]]
    /\ UNCHANGED <<now, mw, environ, settings, tenants, api_keys, usage_events, rl, blk, blk_index, blk_events, req>>

\* block_id = str(uuid.uuid4()): distinct per call and suspect
block_id_of(a, idx) == a * 100 + idx

\* the localhost protection left out
localhost_guarded_Never(c, ip) == FALSE

\* `ip in ("127.0.0.1", "::1") and (not payload.include_localhost)`: the
\* operands evaluated before settings.allow_block_localhost is read
localhost_guarded(c, ip) == ip \in LocalhostIPs /\ ~c.include_localhost

\* The loop of the auto-block entry points from suspect c.idx on, up to the
\* next pipeline of a live block, or to the response.
RECURSIVE ab_advance(_, _)
ab_advance(a, c) ==
    IF c.idx > Len(c.suspects)
    THEN [c EXCEPT !.pc = "done", !.status = "200"]
    ELSE LET s == c.suspects[c.idx]
             ip == s.client_ip
         IN IF localhost_guarded(c, ip) /\ ~hasattr_settings("allow_block_localhost")
            THEN [c EXCEPT !.pc = "done", !.status = "500"]
            ELSE IF localhost_guarded(c, ip) /\ ~settings.allow_block_localhost
            THEN ab_advance(a, [c EXCEPT
                    !.idx = @ + 1,
                    !.skipped = Append(@, [client_ip |-> ip,
                                           reason |-> "localhost_block_protection"])])
            ELSE IF c.dry_run
            THEN ab_advance(a, [c EXCEPT
                    !.idx = @ + 1,
                    !.blocked = Append(@,
                        [client_ip |-> ip,
                         unauth_401_count |-> s.unauth_401_count,
                         block_id |-> block_id_of(a, c.idx),
                         reason_code |-> c.reason_code,
                         ttl_seconds |-> c.ttl,
                         expires_at_epoch |-> now + c.ttl,
                         dry_run |-> TRUE])])
            ELSE [c EXCEPT !.pc = "ab_write", !.ip = ip,
                           !.block_id = block_id_of(a, c.idx),
                           !.created_at_epoch = now,
                           !.expires_at_epoch = now + c.ttl]

\* auto_block_from_suspects (entry "auto_block") and block_top_suspects
\* (entry "one_click"): the flag check, the suspects query, the loop up to its
\* first pipeline.
AutoBlockBegin(a, entry, window_minutes, min_unauth_401, limit, ttl, reason_code, dry_run, include_localhost) ==
    /\ Begin(a)
    /\ window_minutes >= 1 /\ min_unauth_401 >= 1 /\ limit >= 1 /\ ttl >= 10
    /\ LET c == [Begun(a, entry) EXCEPT
                    !.window_minutes = window_minutes,
                    !.min_unauth_401 = min_unauth_401, !.limit = limit,
                    !.ttl = ttl, !.reason = "x",
                    !.reqs_done = {i \in ReqIds : req[i].pc = "done"},
                    !.dry_run = dry_run, !.include_localhost = include_localhost,
                    !.requested_code = reason_code,
                    !.reason_code = IF reason_code \in ALLOWED_REASON_CODES
                                    THEN reason_code ELSE "manual",
                    !.idx = 1]
       IN IF ~hasattr_settings("enable_auto_block")
          THEN adm' = [adm EXCEPT ![a] = [c EXCEPT !.pc = "done", !.status = "500"]]
          ELSE IF ~settings.enable_auto_block
          THEN adm' = [adm EXCEPT ![a] = [c EXCEPT !.pc = "done", !.status = "409"]]
          ELSE \E list \in suspect_lists(min_unauth_401,
                                         now - window_minutes * 60, now, limit) :
                  adm' = [adm EXCEPT ![a] = ab_advance(a, [c EXCEPT !.suspects = list])]
    /\ UNCHANGED <<now, mw, environ, settings, tenants, api_keys, usage_events, rl, blk, blk_index, blk_events, req>>

\* the index score taken from the clock at the time of the write
AutoBlockWrite_ScoreAtWrite(a) ==
    /\ adm[a].pc = "ab_write"
    /\ LET c == adm[a] IN
       /\ blk' = [blk EXCEPT ![c.ip] =
             [present |-> TRUE, exp |-> now + c.ttl,
              meta |-> make_block_payload(c.block_id, c.reason_code, c.reason,
                                          c.created_at_epoch, c.expires_at_epoch)]]
       /\ blk_index' = [blk_index EXCEPT ![c.ip] = now + c.ttl]
       /\ adm' = [adm EXCEPT ![a] =
             [c EXCEPT !.pc = "ab_event", !.t_write = now,
                       !.written = Append(@, c.ip)]]
    /\ UNCHANGED <<now, mw, environ, settings, tenants, api_keys, usage_events, rl, blk_events, req>>

\* pipe.set(key, value, ex=ttl); pipe.zadd(index, {ip: expires}); execute
AutoBlockWrite(a) ==
    /\ adm[a].pc = "ab_write"
    /\ LET c == adm[a] IN
       /\ blk' = [blk EXCEPT ![c.ip] =
             [present |-> TRUE, exp |-> now + c.ttl,
              meta |-> make_block_payload(c.block_id, c.reason_code, c.reason,
                                          c.created_at_epoch, c.expires_at_epoch)]]
       /\ blk_index' = [blk_index EXCEPT ![c.ip] = c.expires_at_epoch]
       /\ adm' = [adm EXCEPT ![a] =
             [c EXCEPT !.pc = "ab_event", !.t_write = now,
                       !.written = Append(@, c.ip)]]
    /\ UNCHANGED <<now, mw, environ, settings, tenants, api_keys, usage_events, rl, blk_events, req>>

\* the block event of the suspect, r.ttl(key), the entry under blocked, and
\* the loop up to the next pipeline or the response
AutoBlockEvent(a) ==
    /\ adm[a].pc = "ab_event"
    /\ LET c == adm[a]
           ttl == redis_ttl(blk[c.ip].present, blk[c.ip].exp)
       IN /\ blk_events' = push_block_event(blk_events,
                [event_type |-> "block", client_ip |-> c.ip,
                 block_id |-> c.block_id, reason_code |-> c.reason_code,
                 expires_at_epoch |-> c.expires_at_epoch, actor |-> c.op])
          /\ adm' = [adm EXCEPT ![a] = ab_advance(a, [c EXCEPT
                !.idx = @ + 1,
                !.blocked = Append(@,
                    [client_ip |-> c.ip,
                     unauth_401_count |-> c.suspects[c.idx].unauth_401_count,
                     block_id |-> c.block_id,
                     reason_code |-> c.reason_code,
                     ttl_seconds |-> IF ttl > 0 THEN ttl ELSE c.ttl,
                     expires_at_epoch |-> c.expires_at_epoch,
                     dry_run |-> FALSE])])]
    /\ UNCHANGED <<now, mw, environ, settings, tenants, api_keys, usage_events, rl, blk, blk_index, req>>

\* _push_block_event raises, or the request is cancelled while the loop
\* awaits it: the loop has no try, the suspects written so far stay blocked
AutoBlockEventFails(a) ==
    /\ adm[a].pc = "ab_event"
    /\ adm' = [adm EXCEPT ![a] = [@ EXCEPT !.pc = "done", !.status = "500"]]
    /\ UNCHANGED <<now, mw, environ, settings, tenants, api_keys, usage_events, rl, blk, blk_index, blk_events, req>>


\* ------------------------------------------------------------ blocks report
\* r.zrangebyscore(index, lo, hi)[:limit]: the members with lo <= score <= hi
\* in ascending score, in every order equal scores allow
zrangebyscore(lo, hi, limit) ==
    LET S == {ip \in IPs : blk_index[ip] # NULL /\ lo <= blk_index[ip] /\ blk_index[ip] <= hi}
        n == Cardinality(S)
        orders == {f \in [1..n -> S] :
                      /\ \A x, y \in 1..n : x # y => f[x] # f[y]
                      /\ \A x, y \in 1..n : x < y => blk_index[f[x]] <= blk_index[f[y]]}
    IN {[x \in 1..(IF n < limit THEN n ELSE limit) |-> f[x]] : f \in orders}

\* the body of the loop of blocks_report after its three reads
report_classify(c, expiry_epoch) ==
    LET ip == c.ips[c.idx] IN
    IF ~c.raw.present
    THEN IF expiry_epoch # NULL /\ expiry_epoch >= c.since_epoch
         THEN [c EXCEPT !.expired_recently =
                  Append(@, [client_ip |-> ip, expired_at_epoch |-> expiry_epoch])]
         ELSE [c EXCEPT !.stale = Append(@, ip)]
    ELSE [c EXCEPT !.active = Append(@,
            [client_ip |-> ip, live_when_read |-> c.raw.present,
             ttl_seconds |-> IF c.ttl_read > 0 THEN c.ttl_read ELSE NULL,
             expires_at_epoch |-> c.raw.meta.expires_at_epoch,
             block_id |-> c.raw.meta.block_id])]

\* after the loop: the ZREM of the stale members when there are any, else
\* the response
report_after_loop(c) ==
    IF c.idx <= Len(c.ips) THEN [c EXCEPT !.pc = "rep_get"]
    ELSE IF c.stale # <<>> THEN [c EXCEPT !.pc = "rep_zrem"]
    ELSE [c EXCEPT !.pc = "done", !.status = "200"]

\* blocks_report up to the result of zrangebyscore
ReportRange(a, lookback_minutes, limit) ==
    /\ Begin(a)
    /\ LET lb == clamp(lookback_minutes, 1, 7 * 24 * 60)
           lim == clamp(limit, 1, 1000)
           since == now - lb * 60
       IN \E ips \in zrangebyscore(since, now + 1000000000, lim) :
            adm' = [adm EXCEPT ![a] = report_after_loop(
                [Begun(a, "report") EXCEPT
                    !.lookback_minutes = lb, !.limit = lim,
                    !.since_epoch = since, !.ips = ips, !.idx = 1])]
    /\ UNCHANGED <<now, mw, environ, settings, tenants, api_keys, usage_events, rl, blk, blk_index, blk_events, req>>

\* raw = await r.get(key)
ReportGet(a) ==
    /\ adm[a].pc = "rep_get"
    /\ adm' = [adm EXCEPT ![a] =
          [@ EXCEPT !.pc = "rep_ttl", !.raw = blk[adm[a].ips[adm[a].idx]]]]
    /\ UNCHANGED <<now, mw, environ, settings, tenants, api_keys, usage_events, rl, blk, blk_index, blk_events, req>>

\* ttl = await r.ttl(key)
ReportTtl(a) ==
    /\ adm[a].pc = "rep_ttl"
    /\ LET b == blk[adm[a].ips[adm[a].idx]] IN
       adm' = [adm EXCEPT ![a] =
          [@ EXCEPT !.pc = "rep_zscore", !.ttl_read = redis_ttl(b.present, b.exp)]]
    /\ UNCHANGED <<now, mw, environ, settings, tenants, api_keys, usage_events, rl, blk, blk_index, blk_events, req>>

\* expiry_epoch = await r.zscore(index, ip); the member is classified and
\* the loop goes on
ReportZscore(a) ==
    /\ adm[a].pc = "rep_zscore"
    /\ LET c == adm[a]
           expiry_epoch == blk_index[c.ips[c.idx]]
       IN adm' = [adm EXCEPT ![a] =
             report_after_loop([report_classify(c, expiry_epoch) EXCEPT !.idx = @ + 1])]
    /\ UNCHANGED <<now, mw, environ, settings, tenants, api_keys, usage_events, rl, blk, blk_index, blk_events, req>>

\* await r.zrem(index, *stale); the response with len(stale)
ReportZrem(a) ==
    /\ adm[a].pc = "rep_zrem"
    /\ LET gone == SeqRange(adm[a].stale) IN
       /\ blk_index' = [ip \in IPs |-> IF ip \in gone THEN NULL ELSE blk_index[ip]]
       /\ adm' = [adm EXCEPT ![a] =
             [@ EXCEPT !.pc = "done", !.status = "200",
                       !.removed = Cardinality({ip \in gone : blk_index[ip] # NULL})]]
    /\ UNCHANGED <<now, mw, environ, settings, tenants, api_keys, usage_events, rl, blk, blk_events, req>>


\* ------------------------------------------------------------ inputs
Headers ==
    {NoHeader, Hdr(<<>>), Hdr(<<"Basic ", "p1">>), Hdr(<<"Bearer ">>),
     Hdr(<<"Bearer ", " ">>), Hdr(<<"Bearer ", "p1">>),
     Hdr(<<"Bearer ", " ", "p1", " ">>), Hdr(<<"Bearer ", "px">>)}
ValidHeader == Hdr(<<"Bearer ", "p1">>)
Paths == {"/protected", "/health"}
TTLs == {10}
RateLimits == {1, 2}
RateWindows == {2}
UnauthHeaders == {NoHeader, Hdr(<<"Bearer ", "px">>)}
AutoEntries == {"auto_block", "one_click"}
WindowMinutes == {10}
MinUnauth == {1, 2}
LookbackMinutes == {1}

\* ------------------------------------------------------------ specifications
\* The application as main.py assembles it: the resolver and revocation.
Init ==
    /\ mw = MainMiddleware
    /\ InitStores(1, 60)

Next ==
    \/ \E i \in GateReqs, h \in Headers : Arrive(i, "ip1", h, "/protected")
    \/ \E i \in GateReqs : Incr(i)
    \/ \E i \in GateReqs : Expire(i)
    \/ \E a \in AdmIds, k \in KeyIds \cup {"kx"} : RevokeGet(a, k)
    \/ \E a \in AdmIds : RevokeCommit(a)
    \/ Tick(BlockTick, BlockHorizon)

Spec == Init /\ [][Next]_vars

\* The application as main.py assembles it: requests and block operations.
NextMain ==
    \/ \E i \in GateReqs, h \in {NoHeader, ValidHeader}, p \in Paths :
          Arrive(i, "ip1", h, p)
    \/ \E i \in GateReqs : Incr(i)
    \/ \E i \in GateReqs : Expire(i)
    \/ \E a \in AdmIds, ttl \in TTLs : BlockBegin(a, "ip1", ttl, "manual")
    \/ \E a \in AdmIds : BlockWrite(a)
    \/ \E a \in AdmIds : BlockEvent(a)
    \/ Tick(BlockTick, BlockHorizon)

SpecMain == Init /\ [][NextMain]_vars

\* The rate-limit engine under concurrent requests that share one credential.
InitRate ==
    /\ mw = MainMiddleware
    /\ \E l \in RateLimits, w \in RateWindows : InitStores(l, w)

NextRate ==
    \/ \E i \in RateReqs : Arrive(i, "ip1", ValidHeader, "/protected")
    \/ \E i \in RateReqs : Incr(i)
    \/ \E i \in RateReqs : Expire(i)
    \/ Tick(1, MaxTime)

SpecRate == InitRate /\ [][NextRate]_vars

\* The middleware classes installed in the documented order.
RevokedKeyRec == [KeyRec(1, 60) EXCEPT !.revoked_at = 0]

\* The credential is usable, or was revoked earlier.
InitChain ==
    /\ mw = ChainMiddleware
    /\ environ = NoEnv
    /\ settings = Settings(environ)
    /\ tenants = SeedTenants
    /\ now = 0
    /\ api_keys \in {[k \in KeyIds |-> KeyRec(1, 60)],
                     [k \in KeyIds |-> RevokedKeyRec]}
    /\ usage_events = <<>>
    /\ rl = [c \in KeyIds \X Times |-> NoCounter]
    /\ blk = [i \in IPs |-> NoBlock]
    /\ blk_index = [i \in IPs |-> NULL]
    /\ blk_events = <<>>
    /\ req = [i \in ReqIds |-> IdleReq]
    /\ adm = [a \in AdmIds |-> IdleAdm]

NextChain ==
    \/ \E i \in GateReqs, h \in {NoHeader, ValidHeader} :
          Arrive(i, "ip1", h, "/protected")
    \/ \E i \in GateReqs : BlocklistReject(i)
    \/ \E i \in GateReqs : Route(i)
    \/ \E i \in GateReqs : Incr(i)
    \/ \E i \in GateReqs : Expire(i)
    \/ \E i \in GateReqs : UsageLog(i)
    \/ \E a \in AdmIds, ttl \in TTLs : BlockBegin(a, "ip1", ttl, "manual")
    \/ \E a \in AdmIds : BlockWrite(a)
    \/ \E a \in AdmIds : BlockEvent(a)
    \/ Tick(BlockTick, BlockHorizon)

SpecChain == InitChain /\ [][NextChain]_vars

\* The abuse control loop on the documented chain: unauthenticated requests,
\* the suspects query and the two auto-block entry points.
InitAbuse ==
    /\ mw = ChainMiddleware
    /\ now = 0
    /\ environ \in {NoEnv, [NoEnv EXCEPT !["ENABLE_AUTO_BLOCK"] = "true"]}
    /\ settings = Settings(environ)
    /\ tenants = SeedTenants
    /\ api_keys = [k \in KeyIds |-> KeyRec(1, 60)]
    /\ usage_events = <<>>
    /\ rl = [c \in KeyIds \X Times |-> NoCounter]
    /\ blk = [i \in IPs |-> NoBlock]
    /\ blk_index = [i \in IPs |-> NULL]
    /\ blk_events = <<>>
    /\ req = [i \in ReqIds |-> IdleReq]
    /\ adm = [a \in AdmIds |-> IdleAdm]

NextAbuse ==
    \/ \E i \in GateReqs, h \in UnauthHeaders : Arrive(i, "ip1", h, "/protected")
    \/ \E i \in GateReqs : Route(i)
    \/ \E i \in GateReqs : UsageLog(i)
    \/ \E a \in AdmIds, wm \in WindowMinutes, mn \in MinUnauth :
          abuse_suspects(a, wm, mn, 20)
    \/ \E a \in AdmIds, e \in AutoEntries, wm \in WindowMinutes, mn \in MinUnauth,
          ttl \in TTLs, dry \in BOOLEAN :
          AutoBlockBegin(a, e, wm, mn, 50, ttl, e, dry, FALSE)
    \/ Tick(BlockTick, BlockHorizon)

SpecAbuse == InitAbuse /\ [][NextAbuse]_vars

\* Usage rows of unauthenticated 401s as the usage_events table can hold
\* them (its tenant_id and api_key_id are nullable), recorded at second ts.
SeedRow(ip, ts) ==
    [tenant_id |-> NoId, api_key_id |-> NoId, method |-> "GET",
     path |-> "/protected", status_code |-> 401, latency_ms |-> 0, ts |-> ts,
     client_ip |-> ip, request |-> 0]

\* more than ten minutes before second 0
LongAgo == 0 - 700

SeedRows ==
    {<<SeedRow("127.0.0.1", 0), SeedRow("127.0.0.1", 0), SeedRow("ip1", 0),
       SeedRow("ip2", LongAgo), SeedRow("ip2", LongAgo)>>,
     <<SeedRow("ip1", 0), SeedRow("ip1", 0), SeedRow("127.0.0.1", 0),
       SeedRow("ip2", LongAgo), SeedRow("ip2", LongAgo)>>}

\* The auto-block entry points with the flags declared on the settings
\* object, over a usage table that holds unauthenticated 401s.
InitAuto ==
    /\ mw = ChainMiddleware
    /\ now = 0
    /\ environ \in [EnvFlags -> {"true", "false"}]
    /\ settings = SettingsWithFlags(environ)
    /\ tenants = SeedTenants
    /\ api_keys = [k \in KeyIds |-> KeyRec(1, 60)]
    /\ usage_events \in SeedRows
    /\ rl = [c \in KeyIds \X Times |-> NoCounter]
    /\ blk = [i \in IPs |-> NoBlock]
    /\ blk_index = [i \in IPs |-> NULL]
    /\ blk_events = <<>>
    /\ req = [i \in ReqIds |-> IdleReq]
    /\ adm = [a \in AdmIds |-> IdleAdm]

NextAuto ==
    \/ \E a \in AdmIds, e \in AutoEntries, wm \in WindowMinutes, mn \in MinUnauth,
          ttl \in TTLs, dry \in BOOLEAN, incl \in BOOLEAN :
          AutoBlockBegin(a, e, wm, mn, 50, ttl, e, dry, incl)
    \/ \E a \in AdmIds : AutoBlockWrite(a)
    \/ \E a \in AdmIds : AutoBlockEvent(a)
    \/ Tick(BlockTick, BlockHorizon)

SpecAuto == InitAuto /\ [][NextAuto]_vars

\* The block event log one entry short of its cap, under the four
\* operations that push to it, with the settings as declared and with the
\* flags declared.
OldEvent ==
    [event_type |-> "block", client_ip |-> "ip2", block_id |-> 0,
     reason_code |-> "manual", expires_at_epoch |-> 0, actor |-> "admin_api"]

InitEvents ==
    /\ mw = ChainMiddleware
    /\ now = 0
    /\ environ = [v \in EnvFlags |-> "true"]
    /\ settings \in {Settings(environ), SettingsWithFlags(environ)}
    /\ tenants = SeedTenants
    /\ api_keys = [k \in KeyIds |-> KeyRec(1, 60)]
    /\ usage_events \in SeedRows
    /\ rl = [c \in KeyIds \X Times |-> NoCounter]
    /\ blk = [i \in IPs |-> NoBlock]
    /\ blk_index = [i \in IPs |-> NULL]
    /\ blk_events = [n \in 1..(BLOCK_EVENTS_MAX - 1) |-> OldEvent]
    /\ req = [i \in ReqIds |-> IdleReq]
    /\ adm = [a \in AdmIds |-> IdleAdm]

NextEvents ==
    \/ \E a \in AdmIds, e \in AutoEntries, mn \in MinUnauth :
          AutoBlockBegin(a, e, 10, mn, 50, 10, e, FALSE, FALSE)
    \/ \E a \in AdmIds : AutoBlockWrite(a)
    \/ \E a \in AdmIds : AutoBlockEvent(a)
    \/ \E a \in AdmIds, ttl \in TTLs : BlockBegin(a, "ip1", ttl, "manual")
    \/ \E a \in AdmIds : BlockWrite(a)
    \/ \E a \in AdmIds : BlockEvent(a)
    \/ \E a \in AdmIds : UnblockWrite(a, "ip1")
    \/ \E a \in AdmIds : UnblockEvent(a)

SpecEvents == InitEvents /\ [][NextEvents]_vars


\* The block entry and index member a block_ip call at second 0 leaves.
PreBlock(id, ttl) ==
    [present |-> TRUE, exp |-> ttl,
     meta |-> make_block_payload(id, "manual", "x", 0, ttl)]

PreBlockEvent(ip, id, ttl) ==
    [event_type |-> "block", client_ip |-> ip, block_id |-> id,
     reason_code |-> "manual", expires_at_epoch |-> ttl, actor |-> "admin_api"]

\* The blocks report next to block and unblock calls, ip1 and ip2 having
\* been blocked at second 0.
InitReport ==
    /\ mw = MainMiddleware
    /\ now = 0
    /\ environ = NoEnv
    /\ settings = Settings(environ)
    /\ tenants = SeedTenants
    /\ api_keys = [k \in KeyIds |-> KeyRec(1, 60)]
    /\ usage_events = <<>>
    /\ rl = [c \in KeyIds \X Times |-> NoCounter]
    /\ blk = [i \in IPs |-> IF i = "ip1" THEN PreBlock(901, 10)
                            ELSE IF i = "ip2" THEN PreBlock(902, 10) ELSE NoBlock]
    /\ blk_index = [i \in IPs |-> IF i \in {"ip1", "ip2"} THEN 10 ELSE NULL]
    /\ blk_events = <<PreBlockEvent("ip2", 902, 10), PreBlockEvent("ip1", 901, 10)>>
    /\ req = [i \in ReqIds |-> IdleReq]
    /\ adm = [a \in AdmIds |-> IdleAdm]

NextReport ==
    \/ \E a \in AdmIds, lb \in LookbackMinutes : ReportRange(a, lb, 200)
    \/ \E a \in AdmIds : ReportGet(a)
    \/ \E a \in AdmIds : ReportTtl(a)
    \/ \E a \in AdmIds : ReportZscore(a)
    \/ \E a \in AdmIds : ReportZrem(a)
    \/ \E a \in AdmIds, ttl \in TTLs : BlockBegin(a, "ip1", ttl, "manual")
    \/ \E a \in AdmIds : BlockWrite(a)
    \/ \E a \in AdmIds : BlockEvent(a)
    \/ \E a \in AdmIds : UnblockWrite(a, "ip1")
    \/ \E a \in AdmIds : UnblockEvent(a)
    \/ Tick(ReportTick, ReportHorizon)

SpecReport == InitReport /\ [][NextReport]_vars

\* Unblock next to block calls and requests, on the documented chain.
InitUnblock ==
    /\ mw = ChainMiddleware
    /\ InitStores(1, 60)

NextUnblock ==
    \/ \E i \in GateReqs : Arrive(i, "ip1", NoHeader, "/protected")
    \/ \E i \in GateReqs : BlocklistReject(i)
    \/ \E i \in GateReqs : Route(i)
    \/ \E i \in GateReqs : UsageLog(i)
    \/ \E a \in AdmIds, ttl \in TTLs : BlockBegin(a, "ip1", ttl, "manual")
    \/ \E a \in AdmIds : BlockWrite(a)
    \/ \E a \in AdmIds : BlockEvent(a)
    \/ \E a \in AdmIds, ip \in {"ip1", "ip2"} : UnblockWrite(a, ip)
    \/ \E a \in AdmIds : UnblockEvent(a)
    \/ Tick(BlockTick, BlockHorizon)

SpecUnblock == InitUnblock /\ [][NextUnblock]_vars


\* Admin calls that do not pass require_admin, next to requests that change
\* the stores.
AdminTokens == {NoHeader, Hdr(<<>>), Hdr(<<"guess">>), Hdr(ConfiguredAdminToken)}

InitAdminAuth ==
    /\ mw = MainMiddleware
    /\ InitStores(1, 2)

NextAdminAuth ==
    \/ \E a \in AdmIds, op \in AdminOps, t \in AdminTokens : AdminGuard(a, op, t)
    \/ \E i \in GateReqs : Arrive(i, "ip1", ValidHeader, "/protected")
    \/ \E i \in GateReqs : Incr(i)
    \/ \E i \in GateReqs : Expire(i)

SpecAdminAuth == InitAdminAuth /\ [][NextAdminAuth]_vars


\* The operations on one credential, revoked before the first step or not.
TierInputs == {"Pro ", "free", "gold"}
KeyInputs == {"k1", "k9"}

InitKeys ==
    /\ mw = MainMiddleware
    /\ now = 0
    /\ environ = NoEnv
    /\ settings = Settings(environ)
    /\ tenants = SeedTenants
    /\ api_keys \in {[k \in KeyIds |-> KeyRec(1, 60)], [k \in KeyIds |-> RevokedKeyRec]}
    /\ usage_events = <<>>
    /\ rl = [c \in KeyIds \X Times |-> NoCounter]
    /\ blk = [i \in IPs |-> NoBlock]
    /\ blk_index = [i \in IPs |-> NULL]
    /\ blk_events = <<>>
    /\ req = [i \in ReqIds |-> IdleReq]
    /\ adm = [a \in AdmIds |-> IdleAdm]

NextKeys ==
    \/ \E a \in AdmIds, k \in KeyInputs : RevokeGet(a, k)
    \/ \E a \in AdmIds : RevokeCommit(a)
    \/ \E a \in AdmIds, k \in KeyInputs, l \in RateLimits, w \in RateWindows : set_key_limits(a, k, l, w)
    \/ \E a \in AdmIds, k \in KeyInputs, t \in TierInputs : SetTierGet(a, k, t)
    \/ \E a \in AdmIds : SetTierCommit(a)
    \/ Tick(1, MaxTime)

SpecKeys == InitKeys /\ [][NextKeys]_vars


\* Tenants and credentials being created and listed.
TenantNames == {"acme", "beta"}
TenantInputs == {"t1", "t9"}

InitCreate ==
    /\ mw = MainMiddleware
    /\ now = 0
    /\ environ = NoEnv
    /\ settings = Settings(environ)
    /\ tenants = SeedTenants
    /\ api_keys = [k \in KeyIds \cup NewKeyIds |->
                     IF k \in KeyIds THEN KeyRec(1, 60) ELSE NoKeyRec]
    /\ usage_events = <<>>
    /\ rl = [c \in KeyIds \X Times |-> NoCounter]
    /\ blk = [i \in IPs |-> NoBlock]
    /\ blk_index = [i \in IPs |-> NULL]
    /\ blk_events = <<>>
    /\ req = [i \in ReqIds |-> IdleReq]
    /\ adm = [a \in AdmIds |-> IdleAdm]

NextCreate ==
    \/ \E a \in AdmIds, n \in TenantNames : CreateTenantSelect(a, n)
    \/ \E a \in AdmIds : CreateTenantCommit(a)
    \/ \E a \in AdmIds, t \in TenantInputs : CreateKeyGetTenant(a, t)
    \/ \E a \in AdmIds, plain \in GeneratedKeys : CreateKeySelect(a, plain)
    \/ \E a \in AdmIds : CreateKeyCommit(a)
    \/ \E a \in AdmIds, t \in TenantInputs : list_api_keys(a, t)
    \/ Tick(1, MaxTime)

SpecCreate == InitCreate /\ [][NextCreate]_vars


\* The documented chain with a relational store that can fail on the insert
\* of a usage row.
NextUsageFail ==
    \/ \E i \in GateReqs, h \in {NoHeader, ValidHeader} :
          Arrive(i, "ip1", h, "/protected")
    \/ \E i \in GateReqs : Route(i)
    \/ \E i \in GateReqs : Incr(i)
    \/ \E i \in GateReqs : Expire(i)
    \/ \E i \in GateReqs : UsageLog(i)
    \/ \E i \in GateReqs : UsageLogFails(i)
    \/ Tick(1, MaxTime)

SpecUsageFail == InitChain /\ [][NextUsageFail]_vars


\* A block entry of the old format: a plain-text reason stored without TTL,
\* as _safe_json_loads reads it.
LegacyBlock ==
    [present |-> TRUE, exp |-> NoTTL,
     meta |-> [NoMeta EXCEPT !.reason = "legacy", !.reason_code = "manual"]]

\* Requests from ip1, which block calls block, and from ip2, which has a
\* legacy entry, on the documented chain.
InitRetry ==
    /\ mw = ChainMiddleware
    /\ now = 0
    /\ environ = NoEnv
    /\ settings = Settings(environ)
    /\ tenants = SeedTenants
    /\ api_keys = [k \in KeyIds |-> KeyRec(1, 60)]
    /\ usage_events = <<>>
    /\ rl = [c \in KeyIds \X Times |-> NoCounter]
    /\ blk = [i \in IPs |-> IF i = "ip2" THEN LegacyBlock ELSE NoBlock]
    /\ blk_index = [i \in IPs |-> NULL]
    /\ blk_events = <<>>
    /\ req = [i \in ReqIds |-> IdleReq]
    /\ adm = [a \in AdmIds |-> IdleAdm]

NextRetry ==
    \/ \E i \in GateReqs, ip \in {"ip1", "ip2"} : Arrive(i, ip, NoHeader, "/protected")
    \/ \E i \in GateReqs : BlocklistReject(i)
    \/ \E i \in GateReqs : Route(i)
    \/ \E i \in GateReqs : UsageLog(i)
    \/ \E a \in AdmIds, ttl \in TTLs : BlockBegin(a, "ip1", ttl, "manual")
    \/ \E a \in AdmIds : BlockWrite(a)
    \/ \E a \in AdmIds : BlockEvent(a)
    \/ Tick(BlockTick, BlockHorizon)

SpecRetry == InitRetry /\ [][NextRetry]_vars


\* The rate-limited route with requests that can be cancelled, and a KV
\* store that can fail, between the increment and the expire.  Every request
\* that is not cancelled goes on, and the clock goes on.
NextCancel ==
    \/ \E i \in RateReqs : Arrive(i, "ip1", ValidHeader, "/protected")
    \/ \E i \in RateReqs : Incr(i)
    \/ \E i \in RateReqs : Expire(i)
    \/ \E i \in RateReqs : Cancel(i)
    \/ \E i \in RateReqs : ExpireFails(i)
    \/ Tick(1, MaxTime)

SpecCancel ==
    /\ InitRate
    /\ [][NextCancel]_vars
    /\ \A i \in RateReqs : WF_vars(Incr(i)) /\ WF_vars(Expire(i))
    /\ WF_vars(Tick(1, MaxTime))


\* The rate-limited route under every kind of credential, next to the
\* revocation of the credential.
NextCounter ==
    \/ \E i \in RateReqs, h \in {NoHeader, ValidHeader, Hdr(<<"Bearer ", "px">>)} :
          Arrive(i, "ip1", h, "/protected")
    \/ \E i \in RateReqs : Incr(i)
    \/ \E i \in RateReqs : Expire(i)
    \/ \E a \in AdmIds : RevokeGet(a, "k1")
    \/ \E a \in AdmIds : RevokeCommit(a)
    \/ Tick(1, MaxTime)

SpecCounter == Init /\ [][NextCounter]_vars


\* The documented chain with a KV store whose calls may raise.
NextKvFail ==
    \/ \E i \in GateReqs, h \in {NoHeader, ValidHeader} :
          Arrive(i, "ip1", h, "/protected")
    \/ \E i \in GateReqs, h \in {NoHeader, ValidHeader} :
          BlocklistGetFails(i, "ip1", h, "/protected")
    \/ \E i \in GateReqs : BlocklistReject(i)
    \/ \E i \in GateReqs : BlocklistTtlFails(i)
    \/ \E i \in GateReqs : Route(i)
    \/ \E i \in GateReqs : Incr(i)
    \/ \E i \in GateReqs : IncrFails(i)
    \/ \E i \in GateReqs : Expire(i)
    \/ \E i \in GateReqs : ExpireFails(i)
    \/ \E i \in GateReqs : UsageLog(i)
    \/ \E ttl \in TTLs : BlockBegin(1, "ip1", ttl, "manual")
    \/ BlockWrite(1)
    \/ BlockEvent(1)

SpecKvFail == InitChain /\ [][NextKvFail]_vars


\* Manual, automatic and one-click blocks and unblocks of the same IPs next
\* to each other, with the flags declared on the settings object.
InitRace ==
    /\ mw = ChainMiddleware
    /\ now = 0
    /\ environ = [v \in EnvFlags |-> "true"]
    /\ settings = SettingsWithFlags(environ)
    /\ tenants = SeedTenants
    /\ api_keys = [k \in KeyIds |-> KeyRec(1, 60)]
    /\ usage_events \in SeedRows
    /\ rl = [c \in KeyIds \X Times |-> NoCounter]
    /\ blk = [i \in IPs |-> NoBlock]
    /\ blk_index = [i \in IPs |-> NULL]
    /\ blk_events = <<>>
    /\ req = [i \in ReqIds |-> IdleReq]
    /\ adm = [a \in AdmIds |-> IdleAdm]

NextRace ==
    \/ \E a \in AdmIds, e \in AutoEntries, mn \in MinUnauth :
          AutoBlockBegin(a, e, 10, mn, 50, 10, e, FALSE, TRUE)
    \/ \E a \in AdmIds : AutoBlockWrite(a)
    \/ \E a \in AdmIds : AutoBlockEvent(a)
    \/ \E a \in AdmIds, ttl \in TTLs : BlockBegin(a, "ip1", ttl, "manual")
    \/ \E a \in AdmIds : BlockWrite(a)
    \/ \E a \in AdmIds : BlockEvent(a)
    \/ \E a \in AdmIds : UnblockWrite(a, "ip1")
    \/ \E a \in AdmIds : UnblockEvent(a)
    \/ Tick(BlockTick, BlockHorizon)

SpecRace == InitRace /\ [][NextRace]_vars


\* The three block entry points with an event push that may fail, with the
\* settings as declared and with the flags declared.
InitEventFail ==
    /\ mw = ChainMiddleware
    /\ now = 0
    /\ environ = [v \in EnvFlags |-> "true"]
    /\ settings \in {Settings(environ), SettingsWithFlags(environ)}
    /\ tenants = SeedTenants
    /\ api_keys = [k \in KeyIds |-> KeyRec(1, 60)]
    /\ usage_events \in SeedRows
    /\ rl = [c \in KeyIds \X Times |-> NoCounter]
    /\ blk = [i \in IPs |-> NoBlock]
    /\ blk_index = [i \in IPs |-> NULL]
    /\ blk_events = <<>>
    /\ req = [i \in ReqIds |-> IdleReq]
    /\ adm = [a \in AdmIds |-> IdleAdm]

NextEventFail ==
    \/ \E a \in AdmIds, e \in AutoEntries, mn \in MinUnauth :
          AutoBlockBegin(a, e, 10, mn, 50, 10, e, FALSE, TRUE)
    \/ \E a \in AdmIds : AutoBlockWrite(a)
    \/ \E a \in AdmIds : AutoBlockEvent(a)
    \/ \E a \in AdmIds : AutoBlockEventFails(a)
    \/ \E a \in AdmIds, ttl \in TTLs : BlockBegin(a, "ip1", ttl, "manual")
    \/ \E a \in AdmIds : BlockWrite(a)
    \/ \E a \in AdmIds : BlockEvent(a)
    \/ \E a \in AdmIds : BlockEventFails(a)
    \/ Tick(BlockTick, BlockHorizon)

SpecEventFail == InitEventFail /\ [][NextEventFail]_vars


\* reason codes a caller may send: the four of the closed set and one outside
ReasonCodes == ALLOWED_REASON_CODES \cup {"bogus"}

\* The three block entry points called with every reason code.
NextCodes ==
    \/ \E a \in AdmIds, e \in AutoEntries, dry \in BOOLEAN :
          \E rc \in {"auto_unauth_401_surge", "one_click_suspects", "bogus"} :
              AutoBlockBegin(a, e, 10, 1, 50, 10, rc, dry, TRUE)
    \/ \E a \in AdmIds : AutoBlockWrite(a)
    \/ \E a \in AdmIds : AutoBlockEvent(a)
    \/ \E a \in AdmIds, ttl \in TTLs, rc \in ReasonCodes :
          BlockBegin(a, "ip1", ttl, rc)
    \/ \E a \in AdmIds : BlockWrite(a)
    \/ \E a \in AdmIds : BlockEvent(a)

SpecCodes == InitEventFail /\ [][NextCodes]_vars


\* ------------------------------------------------------------ block value readers
\* A stored value is a string over these symbols; "kv" stands for the text
\* "reason": "r", "reason_code": "operator_action" between the braces.
RawSymbols == {"{", "kv", "}", "1", "x", " "}

RawValues == UNION {[1..n -> RawSymbols] : n \in 0..MaxRawLen}

\* a value of dict.get that may be None
NoneSeq == [some |-> FALSE, v |-> <<>>]
NoneStr == [some |-> FALSE, v |-> ""]

\* {}
EmptyDict == [reason |-> NoneSeq, reason_code |-> NoneStr]

\* the dict of the JSON object {"reason": "r", "reason_code": "operator_action"}
KvDict ==
    [reason |-> [some |-> TRUE, v |-> <<"r">>],
     reason_code |-> [some |-> TRUE, v |-> "operator_action"]]

\* {"reason": raw, "reason_code": "manual"}
LegacyDict(raw) ==
    [reason |-> [some |-> TRUE, v |-> raw],
     reason_code |-> [some |-> TRUE, v |-> "manual"]]

\* json.loads on the strings above: whitespace around the document is
\* skipped; an object is a dict, a run of digits is a number, anything else
\* raises
json_loads(s) ==
    LET t == strip(s) IN
    IF t = <<"{", "}">>
    THEN [ok |-> TRUE, is_dict |-> TRUE, data |-> EmptyDict]
    ELSE IF t = <<"{", "kv", "}">>
    THEN [ok |-> TRUE, is_dict |-> TRUE, data |-> KvDict]
    ELSE IF t # <<>> /\ \A n \in 1..Len(t) : t[n] = "1"
    THEN [ok |-> TRUE, is_dict |-> FALSE, data |-> EmptyDict]
    ELSE [ok |-> FALSE, is_dict |-> FALSE, data |-> EmptyDict]

\* _safe_json_loads of the blocklist middleware, for a str
safe_json_loads(raw) ==
    LET d == json_loads(raw) IN
    IF d.ok
    THEN IF d.is_dict THEN d.data ELSE EmptyDict
    ELSE LegacyDict(raw)

\* _parse_block_value of the admin API, for a str
parse_block_value(raw) ==
    IF raw # <<>> /\ raw[1] = "{"
    THEN LET d == json_loads(raw) IN
         IF d.ok
         THEN IF d.is_dict THEN d.data ELSE EmptyDict
         ELSE LegacyDict(raw)
    ELSE LegacyDict(raw)

\* the value stored under blk:ip:<ip> as the store returns it
RawBlock(v) == [present |-> TRUE, exp |-> NoTTL, meta |-> NoMeta, raw |-> v]

\* IPBlocklistMiddleware.dispatch on a hit: the value read and parsed, the 403
GatewayRead(i, ip) ==
    /\ req[i].pc = "idle"
    /\ blk[ip].present
    /\ req' = [req EXCEPT ![i] =
          [@ EXCEPT !.pc = "done", !.ip = ip, !.status = 403,
                    !.blk_check = "hit",
                    !.meta = safe_json_loads(blk[ip].raw)]]
    /\ UNCHANGED <<now, mw, environ, settings, tenants, api_keys, usage_events, rl, blk, blk_index, blk_events, adm>>

\* blocked_details: the value read and parsed, the response
AdminRead(a, ip) ==
    /\ Begin(a)
    /\ blk[ip].present
    /\ adm' = [adm EXCEPT ![a] =
          [Begun(a, "blocked_details") EXCEPT
              !.pc = "done", !.ip = ip, !.status = "200",
              !.raw = parse_block_value(blk[ip].raw)]]
    /\ UNCHANGED <<now, mw, environ, settings, tenants, api_keys, usage_events, rl, blk, blk_index, blk_events, req>>

\* Any string stored under the block key of ip1, read by the gateway and by
\* the admin API.
InitReaders ==
    /\ mw = ChainMiddleware
    /\ now = 0
    /\ environ = NoEnv
    /\ settings = Settings(environ)
    /\ tenants = SeedTenants
    /\ api_keys = [k \in KeyIds |-> KeyRec(1, 60)]
    /\ usage_events = <<>>
    /\ rl = [c \in KeyIds \X Times |-> NoCounter]
    /\ \E v \in RawValues :
          blk = [i \in IPs |-> IF i = "ip1" THEN RawBlock(v)
                                ELSE [present |-> FALSE, exp |-> NoTTL,
                                      meta |-> NoMeta, raw |-> <<>>]]
    /\ blk_index = [i \in IPs |-> NULL]
    /\ blk_events = <<>>
    /\ req = [i \in ReqIds |-> IdleReq]
    /\ adm = [a \in AdmIds |-> IdleAdm]

NextReaders ==
    \/ \E i \in GateReqs : GatewayRead(i, "ip1")
    \/ \E a \in AdmIds : AdminRead(a, "ip1")

SpecReaders == InitReaders /\ [][NextReaders]_vars


\* paths outside the gateway router, one per namespace
OtherPaths == {"/health", "/admin/tenants", "/docs", "/openapi.json"}

\* A request to a path outside the gateway router comes back from call_next
\* to UsageLoggingMiddleware.dispatch.  dispatch reads tenant_id and
\* api_key_id from request.state with getattr, whoever put them there: the
\* request carries credential context or it does not.
CallNextOther(i, ip, path, carries) ==
    /\ req[i].pc = "idle"
    /\ i > 1 => req[i - 1].pc # "idle"
    /\ "usage_logging" \in mw
    /\ path \in OtherPaths
    /\ req' = [req EXCEPT ![i] =
          [Arrived(i, ip, NoHeader, path) EXCEPT
              !.pc = "log", !.status = 200,
              !.state_tenant_id = IF carries THEN "t1" ELSE NoId,
              !.state_api_key_id = IF carries THEN "k1" ELSE NoId]]
    /\ UNCHANGED <<now, mw, environ, settings, tenants, api_keys, usage_events, rl, blk, blk_index, blk_events, adm>>

\* The usage-logging middleware on the documented chain, for gateway routes
\* and for the paths outside them.
NextUsagePaths ==
    \/ \E i \in GateReqs, h \in {NoHeader, ValidHeader} :
          Arrive(i, "ip1", h, "/protected")
    \/ \E i \in GateReqs, p \in OtherPaths, carries \in BOOLEAN :
          CallNextOther(i, "ip1", p, carries)
    \/ \E i \in GateReqs : Route(i)
    \/ \E i \in GateReqs : Incr(i)
    \/ \E i \in GateReqs : Expire(i)
    \/ \E i \in GateReqs : UsageLog(i)

SpecUsagePaths == InitChain /\ [][NextUsagePaths]_vars


\* ============================================================ claims
\* ------------------------------------------------------------ rate limit
TheKey == api_keys["k1"]
L == TheKey.rate_limit
W == TheKey.rate_window
AlignedStarts == {s \in Times : s % W = 0}

\* the requests that passed the rate-limit check
Passed == {i \in ReqIds : req[i].status = 200}
\* the requests whose clock read and whose increment lie in one aligned window
Prompt == {i \in ReqIds : req[i].t_incr # NULL /\ req[i].t_incr < req[i].ws + W}

InWindow(t, s) == t # NULL /\ s <= t /\ t < s + W

\* C1 as stated, with a request placed in the window of its clock read, or
\* else in the window of its increment: in every aligned window at most L
\* requests pass.
C1_AlignedWindowAnyInterleaving ==
    \/ \A s \in AlignedStarts :
          Cardinality({i \in Passed : InWindow(req[i].t_read, s)}) <= L
    \/ \A s \in AlignedStarts :
          Cardinality({i \in Passed : InWindow(req[i].t_incr, s)}) <= L

\* C1 (amended): for a credential with unchanged (L, W), in every aligned
\* window [s, s+W) at most L requests pass the rate-limit check among those
\* whose clock read and whose counter increment both fall in that window,
\* under every interleaving.
C1_AlignedWindowLimit ==
    \A s \in AlignedStarts :
        Cardinality({i \in Passed \cap Prompt : InWindow(req[i].t_read, s)}) <= L

C1_Witness ==
    \E s \in AlignedStarts :
        /\ Cardinality({i \in Passed \cap Prompt : InWindow(req[i].t_read, s)}) = L
        /\ \E j \in Prompt : InWindow(req[j].t_read, s) /\ req[j].status = 429

\* C2 as stated: in every window of length rate_window, at any start second,
\* at most L requests succeed (placed by clock read, or else by increment).
C2_AnyWindowLimit ==
    \/ \A s \in Times :
          Cardinality({i \in Passed : InWindow(req[i].t_read, s)}) <= L
    \/ \A s \in Times :
          Cardinality({i \in Passed : InWindow(req[i].t_incr, s)}) <= L

\* C2 (amended): in every window of length rate_window at any start instant
\* at most 2L requests succeed (the fixed-window burst at a boundary), among
\* those whose clock read and increment fall in one aligned window.
C2_AnyWindowBurst ==
    \A s \in Times :
        Cardinality({i \in Passed \cap Prompt : InWindow(req[i].t_read, s)}) <= 2 * L

C2_Witness ==
    \E s \in Times :
        /\ s % W # 0
        /\ Cardinality({i \in Passed \cap Prompt : InWindow(req[i].t_read, s)}) = 2 * L
        /\ \E j \in Prompt : req[j].status = 429

\* the requests that use the counter of request i's window, and those of
\* them up to i in arrival order
SameWindow(i) == {j \in ReqIds : req[j].ws # NULL /\ req[j].ws = req[i].ws}
SameWindowUpTo(i) == {j \in SameWindow(i) : j <= i}

\* request i is answered, inside its window, and no two requests of that
\* window overlapped
Successive(i) ==
    /\ req[i].status # 0
    /\ i \in Prompt
    /\ \A j \in SameWindow(i) : req[j].successive

\* C3: successive requests with a usable credential inside one window whose
\* counter did not exist: the k-th is answered 200 when k <= L and 429 with
\* detail "Rate limit exceeded" when k > L.
C3_KthRequest ==
    \A i \in ReqIds :
        Successive(i) =>
            LET k == Cardinality(SameWindowUpTo(i))
            IN IF k <= L
               THEN req[i].status = 200
               ELSE req[i].status = 429 /\ req[i].detail = "Rate limit exceeded"

C3_Witness ==
    \E i \in ReqIds :
        /\ Successive(i)
        /\ L = 2
        /\ Cardinality(SameWindowUpTo(i)) = 3
        /\ req[i].status = 429
        /\ \A j \in SameWindowUpTo(i) \ {i} : req[j].status = 200

\* ------------------------------------------------------------ blocklist
Answered == {i \in ReqIds : req[i].status # 0}

\* the block entry that existed when request i arrived is still in the store
SameBlockStill(i) ==
    /\ req[i].block_id_start # 0
    /\ blk[req[i].ip].present
    /\ blk[req[i].ip].meta.block_id = req[i].block_id_start

\* C4: a request that arrives from an IP whose block entry exists, and is
\* answered while that entry still exists, is answered 403, on any route.
C4_BlockedIpGets403 ==
    \A i \in Answered : SameBlockStill(i) => req[i].status = 403

\* the usage rows written for request i
RowsOf(i) == {n \in DOMAIN usage_events : usage_events[n].request = i}

RECURSIVE SumCounts(_)
SumCounts(keys) ==
    IF keys = {} THEN 0
    ELSE LET c == CHOOSE x \in keys : TRUE
         IN rl[c].count + SumCounts(keys \ {c})

\* C5: a request rejected by the IP blocklist looked up no credential,
\* incremented no counter, invoked no handler and wrote no usage event; every
\* increment of a counter belongs to a request that was not rejected.
C5_BlockedRequestHasNoEffect ==
    /\ \A i \in ReqIds :
          req[i].blk_check = "hit" =>
              /\ req[i].api_key = NoKeyRec
              /\ req[i].state_api_key_id = NoId /\ req[i].state_tenant_id = NoId
              /\ req[i].count = 0 /\ req[i].t_incr = NULL
              /\ ~req[i].handler
              /\ ~req[i].logged /\ RowsOf(i) = {}
              /\ req[i].order = <<"blocklist">>
              /\ req[i].status \in {0, 403}
    /\ SumCounts(DOMAIN rl) =
          Cardinality({i \in ReqIds : req[i].t_incr # NULL /\ req[i].status # 403})

C5_Witness ==
    \E i, j \in ReqIds :
        /\ req[i].status = 403 /\ req[i].pc = "done"
        /\ req[i].hdr = ValidHeader
        /\ req[j].status = 200 /\ req[j].logged

\* the block calls on request i's IP whose entry was written by the time
\* request i arrived
BlocksBefore(i) ==
    {a \in AdmIds : /\ adm[a].op = "block" /\ adm[a].ip = req[i].ip
                    /\ adm[a].t_write # NULL /\ adm[a].t_write <= req[i].t_arrive}

\* every block written for the IP of request i had run out when i arrived
AllExpired(i) ==
    /\ BlocksBefore(i) # {}
    /\ \A a \in BlocksBefore(i) : adm[a].t_write + adm[a].ttl <= req[i].t_arrive

\* C6: a request that arrives after every block written for its IP has
\* reached its expiry (ttl seconds after the write) is not answered 403 and
\* goes down the normal path: 401 "Missing API key" when it has no header.
C6_ExpiredBlockLetsThrough ==
    \A i \in ReqIds :
        (req[i].pc # "idle" /\ AllExpired(i)) =>
            /\ req[i].blk_check = "passed"
            /\ req[i].status # 403
            /\ (i \in Answered /\ req[i].hdr = NoHeader) =>
                  req[i].status = 401 /\ req[i].detail = "Missing API key"

C6_Witness ==
    \E i, j \in ReqIds :
        /\ req[j].status = 403 /\ req[j].ip = req[i].ip /\ j < i
        /\ AllExpired(i)
        /\ req[i].hdr = NoHeader /\ req[i].status = 401

\* ------------------------------------------------------------ order of steps
IsPrefix(p, q) == Len(p) <= Len(q) /\ SubSeq(q, 1, Len(p)) = p

PresentsK1(i) ==
    req[i].hdr \in {Hdr(<<"Bearer ", "p1">>), Hdr(<<"Bearer ", " ", "p1", " ">>)}

\* C7: revocation is one-way: no step sets a credential's revoked_at back to
\* null, and every request that starts after the credential was revoked is
\* answered 401, never 200.
C7_RevocationOneWay ==
    /\ [](\A i \in Answered :
            (PresentsK1(i) /\ "k1" \in req[i].revoked_at_start) =>
                req[i].status = 401 /\ ~req[i].handler)
    /\ [][\A k \in KeyIds :
            api_keys[k].revoked_at # NULL => api_keys'[k].revoked_at # NULL]_vars

C7_Witness ==
    \E i \in Answered :
        /\ PresentsK1(i) /\ "k1" \in req[i].revoked_at_start
        /\ req[i].status = 401 /\ req[i].detail = "Invalid API key"
        /\ \E j \in Answered : j < i /\ req[j].status = 200

\* the revoke calls on credential k, and the finished ones
RevokeCalls(k) ==
    {a \in AdmIds : adm[a].op = "revoke" /\ adm[a].key_id = k}

Revokes(k) ==
    {a \in RevokeCalls(k) : adm[a].pc = "done"}

\* admin calls are numbered in the order they start
FirstRevoke(k) ==
    CHOOSE a \in RevokeCalls(k) : \A b \in RevokeCalls(k) : a <= b

\* C8: the first revoke of a credential returns "revoked" and sets
\* revoked_at; every later revoke of the same credential answers
\* "already_revoked", and revoked_at stays at the value the first call set.
C8_RevokeIdempotent ==
    \A k \in KeyIds : \A a \in Revokes(k) :
        IF a = FirstRevoke(k)
        THEN /\ adm[a].status = "revoked"
             /\ adm[a].revoked_at = adm[a].t
        ELSE /\ adm[a].status = "already_revoked"
             /\ api_keys[k].revoked_at = adm[FirstRevoke(k)].t

\* ------------------------------------------------------------ resolver outcomes
MissingHeaders ==
    {NoHeader, Hdr(<<>>), Hdr(<<"Basic ", "p1">>), Hdr(<<"Bearer ">>),
     Hdr(<<"Bearer ", " ">>)}

\* C9: the resolver maps each request to exactly one outcome: 401 "Missing
\* API key" for an absent, non-Bearer or empty credential; 401 "Invalid API
\* key" for an unknown or revoked one; 429 "Rate limit exceeded" when the
\* counter exceeds the limit; otherwise the credential record and the handler.
C9_ResolverOutcome ==
    \A i \in Answered :
        IF req[i].hdr \in MissingHeaders
        THEN /\ req[i].status = 401 /\ req[i].detail = "Missing API key"
             /\ req[i].api_key = NoKeyRec /\ req[i].count = 0 /\ ~req[i].handler
        ELSE IF ~PresentsK1(i)
        THEN /\ req[i].status = 401 /\ req[i].detail = "Invalid API key"
             /\ req[i].api_key = NoKeyRec /\ req[i].count = 0 /\ ~req[i].handler
        ELSE IF "k1" \in req[i].revoked_at_start
        THEN /\ req[i].status = 401 /\ req[i].detail = "Invalid API key"
             /\ req[i].count = 0 /\ ~req[i].handler
        ELSE IF req[i].count > L
        THEN /\ req[i].status = 429 /\ req[i].detail = "Rate limit exceeded"
             /\ ~req[i].handler
        ELSE /\ req[i].status = 200 /\ req[i].detail = ""
             /\ req[i].handler /\ req[i].api_key.id = "k1"

C9_Witness ==
    \E i, j \in Answered :
        /\ req[i].hdr = Hdr(<<"Bearer ", " ">>) /\ req[i].status = 401
        /\ req[j].hdr = Hdr(<<"Bearer ", " ", "p1", " ">>) /\ req[j].status = 200

\* ------------------------------------------------------------ usage events
\* the finished requests on which require_client_key attached a credential
WithContext == {i \in ReqIds : req[i].pc = "done" /\ req[i].state_api_key_id # NoId}

\* the finished requests to a protected route rejected 401 with no credential
\* context: the credential was missing or unknown
Unauth401 ==
    {i \in ReqIds : /\ req[i].pc = "done" /\ req[i].status = 401
                    /\ req[i].path \in ProtectedPaths
                    /\ req[i].state_api_key_id = NoId}

\* C11: every request on which credential context was attached (200, 401
\* because revoked, 429) has a usage event with the credential's tenant_id
\* and api_key_id, the request's method and path, the response status and
\* latency_ms >= 0.
C11_ContextRequestsLogged ==
    \A i \in WithContext :
        \E n \in RowsOf(i) :
            /\ usage_events[n].tenant_id = req[i].api_key.tenant_id
            /\ usage_events[n].api_key_id = req[i].api_key.id
            /\ usage_events[n].method = req[i].method
            /\ usage_events[n].path = req[i].path
            /\ usage_events[n].status_code = req[i].status
            /\ usage_events[n].latency_ms >= 0

\* C12: a request to a protected route rejected 401 for a missing or unknown
\* credential has a usage event with tenant_id null, api_key_id null and
\* status 401.
C12_UnauthRequestsLogged ==
    \A i \in Unauth401 :
        \E n \in RowsOf(i) :
            /\ usage_events[n].tenant_id = NoId
            /\ usage_events[n].api_key_id = NoId
            /\ usage_events[n].status_code = 401

\* ------------------------------------------------------------ abuse control loop
AutoOps == {"auto_block", "one_click"}

\* the unauthenticated 401s of an IP that were answered when call a started,
\* inside the window of call a
UnauthOf(ip, a) ==
    {i \in Unauth401 \cap adm[a].reqs_done :
        /\ req[i].ip = ip
        /\ req[i].t_arrive >= adm[a].t - adm[a].window_minutes * 60}

SuspectIpsOf(a) == {adm[a].suspects[n].client_ip : n \in DOMAIN adm[a].suspects}

\* C13: an IP with at least min_unauth_401 unauthenticated 401s on a
\* protected route inside the window is returned by the suspects query, and
\* a live auto-block run with the same parameters writes a block for it.
C13_AbuseLoop ==
    \A a \in AdmIds : \A ip \in IPs :
        (/\ adm[a].pc = "done"
         /\ adm[a].op \in AutoOps \cup {"suspects"}
         /\ Cardinality(UnauthOf(ip, a)) >= adm[a].min_unauth_401) =>
            IF adm[a].op = "suspects"
            THEN ip \in SuspectIpsOf(a)
            ELSE ~adm[a].dry_run => ip \in SeqRange(adm[a].written)

\* C14: an auto-block or one-click call with dry_run = true, the flag being
\* on, answers with every non-skipped suspect under blocked, marked dry_run,
\* and no step of the call changes blk:ip keys, blk:index or blk:events.
C14_DryRunLeavesKv ==
    /\ [](\A a \in AdmIds :
            (/\ adm[a].pc = "done" /\ adm[a].op \in AutoOps /\ adm[a].dry_run
             /\ environ["ENABLE_AUTO_BLOCK"] = "true") =>
                /\ adm[a].status = "200"
                /\ adm[a].written = <<>>
                /\ {e.client_ip : e \in SeqRange(adm[a].blocked)} =
                      SuspectIpsOf(a) \ {e.client_ip : e \in SeqRange(adm[a].skipped)}
                /\ \A e \in SeqRange(adm[a].blocked) : e.dry_run)
    /\ [][\A a \in AdmIds :
            (adm'[a] # adm[a] /\ adm'[a].op \in AutoOps /\ adm'[a].dry_run) =>
                UNCHANGED <<blk, blk_index, blk_events>>]_vars

\* C15: with the ENABLE_AUTO_BLOCK flag off both entry points answer 409
\* for every payload, dry_run included, and write nothing to the KV store.
C15_FlagOff409 ==
    /\ [](\A a \in AdmIds :
            (/\ adm[a].pc = "done" /\ adm[a].op \in AutoOps
             /\ environ["ENABLE_AUTO_BLOCK"] # "true") =>
                adm[a].status = "409" /\ adm[a].written = <<>>)
    /\ [][\A a \in AdmIds :
            (/\ adm'[a] # adm[a] /\ adm'[a].op \in AutoOps
             /\ environ["ENABLE_AUTO_BLOCK"] # "true") =>
                UNCHANGED <<blk, blk_index, blk_events>>]_vars

\* ------------------------------------------------------------ auto-block safety
IpsOf(list) == {list[n].client_ip : n \in DOMAIN list}
TimesIn(list, ip) == Cardinality({n \in DOMAIN list : list[n].client_ip = ip})

\* C16: neither auto-block entry point writes a block for 127.0.0.1 or ::1
\* unless include_localhost or allow_block_localhost is true; every suspect
\* of a finished call is in exactly one of blocked and skipped, and no block
\* is written for a skipped suspect.
C16_LocalhostGuard ==
    /\ [](\A a \in AdmIds : adm[a].op \in AutoOps =>
            /\ \A ip \in SeqRange(adm[a].written) \cap LocalhostIPs :
                  adm[a].include_localhost \/ environ["ALLOW_BLOCK_LOCALHOST"] = "true"
            /\ SeqRange(adm[a].written) \cap IpsOf(adm[a].skipped) = {}
            /\ (adm[a].pc = "done" /\ adm[a].status = "200") =>
                  /\ IpsOf(adm[a].blocked) \cup IpsOf(adm[a].skipped) = SuspectIpsOf(a)
                  /\ \A ip \in SuspectIpsOf(a) :
                        TimesIn(adm[a].blocked, ip) + TimesIn(adm[a].skipped, ip) = 1)
    /\ [][\A ip \in LocalhostIPs \cap IPs :
            (blk'[ip].present /\ blk'[ip] # blk[ip]) =>
                \E a \in AdmIds :
                    /\ adm[a].pc = "ab_write" /\ adm[a].ip = ip
                    /\ adm[a].include_localhost
                          \/ environ["ALLOW_BLOCK_LOCALHOST"] = "true"]_vars

C16_Witness ==
    \E a, b \in AdmIds :
        /\ adm[a].pc = "done" /\ adm[a].status = "200" /\ ~adm[a].dry_run
        /\ IpsOf(adm[a].skipped) = {"127.0.0.1"}
        /\ adm[a].written = <<"ip1">>
        /\ ~blk["127.0.0.1"].present /\ blk["ip1"].present
        /\ adm[b].pc = "done" /\ adm[b].include_localhost
        /\ "127.0.0.1" \in IpsOf(adm[b].blocked) /\ adm[b].dry_run

\* ------------------------------------------------------------ block event log
\* C17: blk:events never holds more than 5000 entries, and every push puts
\* the event of the operation that pushed it at the head, the older entries
\* following in their order.
C17_EventLogCapped ==
    /\ [](Len(blk_events) <= 5000)
    /\ [][blk_events' # blk_events =>
            /\ \E a \in AdmIds :
                  /\ adm'[a] # adm[a]
                  /\ blk_events'[1].client_ip = adm[a].ip
                  /\ blk_events'[1].block_id =
                        (IF adm[a].op = "unblock" THEN 0 ELSE adm[a].block_id)
                  /\ blk_events'[1].event_type =
                        (IF adm[a].op = "unblock" THEN "unblock" ELSE "block")
            /\ \A n \in 2..Len(blk_events') : blk_events'[n] = blk_events[n - 1]
            /\ Len(blk_events') >= Len(blk_events)]_vars

C17_Witness ==
    /\ Len(blk_events) = 5000
    /\ blk_events[1].event_type = "unblock"
    /\ blk_events[2].actor \in AutoOps
    /\ blk_events[3] = OldEvent

\* ------------------------------------------------------------ blocks report
\* the report call a returns in this step
ReportReturns(a) ==
    adm[a].pc # "done" /\ adm'[a].pc = "done" /\ adm'[a].op = "report"

\* C18: when a report returns, every IP it lists as active had a live
\* blk:ip key when the report read it, every member it classified as stale is
\* gone from blk:index, and cleaned_stale_index_members (the length of the
\* stale list) is the number of members its ZREM removed.
C18_ReportActiveAndStale ==
    /\ [](\A a \in AdmIds : adm[a].op = "report" =>
            \A e \in SeqRange(adm[a].active) : e.live_when_read)
    /\ [][\A a \in AdmIds : ReportReturns(a) =>
            /\ \A ip \in SeqRange(adm'[a].stale) : blk_index'[ip] = NULL
            /\ Len(adm'[a].stale) = adm'[a].removed]_vars

\* C19: when a report with lookback L returns, blk:index holds no member
\* whose key is absent and whose score is older than now - L.
C19_StaleMembersEvicted ==
    [][\A a \in AdmIds : ReportReturns(a) =>
          \A ip \in IPs :
              (blk_index'[ip] # NULL /\ ~blk'[ip].present) =>
                  blk_index'[ip] >= adm'[a].since_epoch]_vars

\* ------------------------------------------------------------ unblock
\* the unblock call a executes its pipeline in this step
UnblockWrites(a) == adm[a].pc = "idle" /\ adm'[a].op = "unblock"

UnblockEventsOf(ip) ==
    {n \in DOMAIN blk_events :
        blk_events[n].event_type = "unblock" /\ blk_events[n].client_ip = ip}

\* C20: unblock deletes blk:ip:<ip> and the index member and pushes one
\* unblock event; deleted is true exactly when the key existed and
\* removed_from_index exactly when the member existed; from then on a request
\* from the IP is rejected by the blocklist only on a block written later.
C20_Unblock ==
    /\ [][\A a \in AdmIds : UnblockWrites(a) =>
            LET ip == adm'[a].ip IN
            /\ ~blk'[ip].present /\ blk_index'[ip] = NULL
            /\ adm'[a].deleted = blk[ip].present
            /\ adm'[a].removed_from_index = (blk_index[ip] # NULL)]_vars
    /\ [](\A ip \in IPs :
            Cardinality(UnblockEventsOf(ip)) =
                Cardinality({a \in AdmIds : /\ adm[a].op = "unblock" /\ adm[a].ip = ip
                                            /\ adm[a].pc = "done"}))
    /\ [](\A i \in ReqIds : \A u \in AdmIds :
            (/\ req[i].blk_check = "hit"
             /\ adm[u].op = "unblock" /\ adm[u].ip = req[i].ip
             /\ adm[u].t_write < req[i].t_arrive) =>
                \E b \in AdmIds :
                    /\ adm[b].op = "block" /\ adm[b].block_id = req[i].meta.block_id
                    /\ adm[b].t_write >= adm[u].t_write
                    /\ b \notin adm[u].after)
    /\ [][\A i \in ReqIds :
            (req[i].pc = "idle" /\ req'[i].pc # "idle" /\ ~blk[req'[i].ip].present) =>
                req'[i].blk_check = "passed"]_vars

C20_Witness ==
    \E u, b \in AdmIds : \E i, j \in ReqIds :
        /\ adm[b].op = "block" /\ adm[b].pc = "done"
        /\ adm[u].op = "unblock" /\ adm[u].pc = "done" /\ adm[u].ip = "ip1"
        /\ adm[u].deleted /\ adm[u].removed_from_index
        /\ req[j].status = 403 /\ req[j].t_arrive < adm[u].t_write
        /\ req[i].t_arrive > adm[u].t_write
        /\ req[i].blk_check = "passed" /\ req[i].status = 401

\* ------------------------------------------------------------ admin authentication
\* the admin call a is answered in this step
AdminAnswered(a) == adm[a].pc = "idle" /\ adm'[a].pc = "done"

BadAdminToken(t) == ~t.present \/ t.v # ConfiguredAdminToken

\* C21: an admin operation called without X-Admin-Token, or with one that
\* is not the configured value, is answered 401 and changes nothing in the
\* relational store or the KV store.
C21_AdminTokenRequired ==
    [][\A a \in AdmIds :
          (/\ AdminAnswered(a)
           /\ adm'[a].op \in AdminOps
           /\ BadAdminToken(adm'[a].x_admin_token)) =>
              /\ adm'[a].status = "401"
              /\ UNCHANGED <<tenants, api_keys, usage_events, rl, blk, blk_index, blk_events>>]_vars


\* ------------------------------------------------------------ limits of a credential
\* the admin call a reads its credential in this step
ReadsKey(a) == adm[a].pc = "idle" /\ adm'[a].pc # "idle"

\* C22: set limits and set tier on a revoked credential are answered 409
\* and leave its rate_limit and rate_window as they were.
C22_RevokedNotMutated ==
    [][\A a \in AdmIds :
          (/\ ReadsKey(a)
           /\ \/ adm'[a].op = "limits"
              \/ adm'[a].op = "tier" /\ adm'[a].tier \in DOMAIN TIERS
           /\ KeyExists(adm'[a].key_id)
           /\ api_keys[adm'[a].key_id].revoked_at # NULL) =>
              /\ adm'[a].pc = "done" /\ adm'[a].status = "409"
              /\ api_keys'[adm'[a].key_id].rate_limit = api_keys[adm'[a].key_id].rate_limit
              /\ api_keys'[adm'[a].key_id].rate_window = api_keys[adm'[a].key_id].rate_window]_vars


\* ------------------------------------------------------------ tenants and credentials
CreateTenantCalls(n) ==
    {a \in AdmIds : adm[a].op = "create_tenant" /\ adm[a].name = n /\ adm[a].pc = "done"}

\* C23: of the create-tenant calls that carry one name, one creates the
\* tenant and every other is answered 409, however they interleave; no two
\* tenants share a name.
C23_OneTenantPerName ==
    /\ \A t, u \in tenants : t.name = u.name => t = u
    /\ \A n \in TenantNames :
        /\ \A a \in CreateTenantCalls(n) : adm[a].status \in {"200", "409"}
        /\ Cardinality({a \in CreateTenantCalls(n) : adm[a].status = "200"}) <= 1
        /\ CreateTenantCalls(n) # {} => tenants_named(n) # {}

\* the plaintexts returned by create-credential calls
CreatedKeys == {a \in AdmIds : adm[a].op = "create_key" /\ adm[a].status = "200"}

\* C24: the credential store holds the SHA-256 fingerprint and the
\* 8-character prefix of a credential's plaintext and never the plaintext;
\* the plaintext is in the response of the creating call and of no other.
C24_PlaintextOnlyAtCreation ==
    /\ \A a \in CreatedKeys :
          LET row == api_keys[adm[a].key_id]
              plain == adm[a].api_key IN
          /\ row.key_hash = hash_key(plain)
          /\ row.key_prefix = SubSeq(plain, 1, KEY_PREFIX_LEN)
          /\ row.key_hash # plain /\ row.key_prefix # plain
          /\ \A b \in AdmIds \ {a} : adm[b].pc = "done" => adm[b].api_key # plain
          /\ \A b \in AdmIds : \A r \in adm[b].rows : r.key_prefix # plain
    /\ \A a \in AdmIds :
          (adm[a].pc = "done" /\ adm[a].api_key # <<>>) => a \in CreatedKeys

C24_Witness ==
    \E a, b \in AdmIds :
        /\ a \in CreatedKeys
        /\ adm[b].op = "list_keys" /\ adm[b].pc = "done"
        /\ \E r \in adm[b].rows : r.id = adm[a].key_id


\* ------------------------------------------------------------ usage store failure
\* C25: the response a request gets is the one the handler or the resolver
\* produced, with its status, whether the usage row was written or the write
\* failed.
C25_UsageFailureKeepsResponse ==
    [][\A i \in ReqIds :
          (req[i].pc = "log" /\ req'[i].pc = "done") =>
              req'[i].status = req[i].status]_vars


\* ------------------------------------------------------------ rate limit result
\* the requests on which the engine was consulted and that were answered
Consulted == {i \in ReqIds : req[i].result # NoResult /\ req[i].status \in {200, 429}}

\* C26: a response to a request on which the engine was consulted, 200
\* or 429, carries X-RateLimit-Limit equal to the credential's effective limit
\* and X-RateLimit-Remaining and X-RateLimit-Reset of the same engine result.
C26_RateLimitHeaders ==
    \A i \in Consulted :
        /\ req[i].headers.present
        /\ req[i].headers.limit = per_key_limit(req[i].api_key)
        /\ req[i].headers.remaining = req[i].result.remaining
        /\ req[i].headers.reset = req[i].result.reset_epoch

\* C28: for post-increment count c, limit L and window W at time now the
\* engine's result has allowed iff c <= L, remaining = max(0, L - c) (never
\* negative, 0 on a denied call) and reset = window_start + W with
\* window_start = now - (now mod W), so now < reset <= now + W.
C28_EngineResult ==
    \A i \in ReqIds : req[i].result # NoResult =>
        LET res == req[i].result
            c == req[i].count
            lim == per_key_limit(req[i].api_key)
            win == per_key_window(req[i].api_key)
            t == req[i].t_read
        IN /\ res.limit = lim
           /\ res.allowed <=> (c <= lim)
           /\ res.remaining = (IF lim - c > 0 THEN lim - c ELSE 0)
           /\ res.remaining >= 0
           /\ ~res.allowed => res.remaining = 0
           /\ res.reset_epoch = (t - (t % win)) + win
           /\ t < res.reset_epoch /\ res.reset_epoch <= t + win

C28_Witness ==
    \E i, j \in ReqIds :
        /\ req[i].result.allowed /\ req[i].result.remaining = 1
        /\ req[j].result # NoResult /\ ~req[j].result.allowed
        /\ req[j].count = req[j].result.limit + 1
        /\ req[j].t_read % per_key_window(req[j].api_key) # 0


\* ------------------------------------------------------------ Retry-After
\* the requests the blocklist answered 403
Blocked403 == {i \in ReqIds : req[i].status = 403 /\ req[i].blk_check = "hit"}

\* the block call that wrote the entry request i found
BlockOf(i) == {b \in AdmIds : adm[b].op = "block" /\ adm[b].block_id = req[i].meta.block_id}

\* C27: a 403 for a block written with ttl seconds carries Retry-After,
\* a value in 1..ttl that does not grow from one rejected request to the next
\* for the same block; a 403 for an entry without TTL carries no Retry-After.
C27_RetryAfter ==
    /\ \A i \in Blocked403 : \A b \in BlockOf(i) :
          /\ req[i].retry_after # NULL
          /\ 1 <= req[i].retry_after /\ req[i].retry_after <= adm[b].ttl
    /\ \A i, j \in Blocked403 :
          (/\ i < j /\ req[j].successive
           /\ BlockOf(i) # {} /\ req[i].meta.block_id = req[j].meta.block_id
           /\ req[i].retry_after # NULL /\ req[j].retry_after # NULL) =>
              req[j].retry_after <= req[i].retry_after
    /\ \A i \in ReqIds :
          (req[i].pc = "done" /\ req[i].blk_check = "hit" /\ BlockOf(i) = {}) =>
              req[i].status = 403 /\ req[i].retry_after = NULL


\* ------------------------------------------------------------ counter lifetime
\* request i executes r.expire on the counter c in this step
SetsTtl(i, c) ==
    /\ req[i].pc = "expire" /\ req'[i].pc # "expire"
    /\ KeyOf(i) = c /\ req[i].count = 1

\* C29: the TTL of a counter is set by the call whose increment returned
\* 1 and by no other; an increment that returns more than 1 leaves the TTL
\* as it is, so a counter's lifetime is never extended.
C29_TtlSetByCreator ==
    [][\A c \in DOMAIN rl :
          /\ (rl'[c].exp # rl[c].exp /\ rl'[c] # NoCounter) =>
                /\ rl[c].exp = NoTTL
                /\ \E i \in ReqIds : SetsTtl(i, c)
          /\ (rl'[c].count > rl[c].count /\ rl'[c].count > 1) =>
                rl'[c].exp = rl[c].exp]_vars

C29_Witness ==
    \E i, j \in ReqIds :
        /\ req[i].ws # NULL /\ req[j].ws = req[i].ws
        /\ req[i].count = 1 /\ req[j].count = 2
        /\ req[j].t_incr > req[i].t_incr
        /\ rl[KeyOf(i)].count = 2
        /\ rl[KeyOf(i)].exp # NoTTL
        /\ rl[KeyOf(i)].exp < req[j].t_incr + per_key_window(req[j].api_key)


\* C30: every counter key that is created gets a TTL: a key that is in
\* the KV store without a TTL does not stay so, also when the creating request
\* is cancelled or the KV call fails between the increment and the expire.
C30_CountersExpire ==
    \A c \in KeyIds \X Times :
        (rl[c].count > 0 /\ rl[c].exp = NoTTL) ~> (rl[c].count = 0 \/ rl[c].exp # NoTTL)


\* ------------------------------------------------------------ who touches a counter
\* request i executes its r.incr in this step
Increments(i) == req[i].pc = "incr" /\ req'[i].pc # "incr"

\* the credential request i presents is in the store
PresentsFound(i) ==
    /\ ~header_missing(req[i].hdr)
    /\ lookup_key(hash_key(strip(removeprefix_bearer(req[i].hdr.v)))) # {}

\* C31: a request rejected as missing, unknown or revoked leaves every
\* counter as it is; a request that reaches the engine, a 429 included, adds
\* exactly 1 to its counter and presented a credential found and not revoked;
\* a counter that has not expired is never decremented or reset.
C31_OnlyAdmittedTouchCounters ==
    /\ [](\A i \in ReqIds : req[i].status = 401 =>
            req[i].count = 0 /\ req[i].t_incr = NULL)
    /\ [][\A c \in DOMAIN rl : rl'[c].count # rl[c].count =>
            \/ /\ rl[c].exp # NoTTL /\ rl[c].exp <= now'
               /\ rl'[c] = NoCounter
            \/ /\ rl'[c].count = rl[c].count + 1
               /\ \E i \in ReqIds : Increments(i) /\ KeyOf(i) = c]_vars
    /\ [][\A i \in ReqIds : Increments(i) =>
            /\ rl'[KeyOf(i)].count = rl[KeyOf(i)].count + 1
            /\ req'[i].count = rl'[KeyOf(i)].count
            /\ PresentsFound(i)
            /\ req[i].api_key.revoked_at = NULL]_vars
    /\ [][\A i \in ReqIds :
            (req[i].pc = "idle" /\ req'[i].status = 401) => rl' = rl]_vars

C31_Witness ==
    \E i, j, k \in ReqIds :
        /\ req[i].status = 200 /\ req[i].count = 1
        /\ req[j].status = 429 /\ req[j].count = 2
        /\ req[k].status = 401 /\ req[k].state_api_key_id # NoId
        /\ req[k].ws = NULL
        /\ rl[KeyOf(i)].count = 2


\* ------------------------------------------------------------ KV store failures
\* the requests one of whose KV store calls raised
KvFailed == {i \in ReqIds : \E n \in 1..Len(req[i].order) : req[i].order[n] = "kv_error"}

\* C32: a request whose blocklist lookup or rate-limit increment fails in the
\* KV store is answered with a 5xx and its route handler is not called; it is
\* never answered 200 or 429.
C32_KvFailureIs5xx ==
    \A i \in KvFailed :
        /\ req[i].status \in 500..599
        /\ ~req[i].handler
        /\ req[i].status \notin {200, 429}

C32_Witness ==
    \E i, j \in KvFailed :
        /\ req[i].pc = "done" /\ req[i].blk_check = "failed"
        /\ req[i].order = <<"blocklist", "kv_error">>
        /\ req[j].pc = "done" /\ req[j].blk_check = "passed"
        /\ req[j].t_incr = NULL /\ req[j].ws # NULL
        /\ req[j].status = 500


\* ------------------------------------------------------------ index and entry agree
\* no block operation is between its start and its response
BlocksQuiescent == \A a \in AdmIds : adm[a].pc \in {"idle", "done"}

\* C33: once every block operation on an IP has completed, a block entry and
\* an index member that both exist for the IP agree: the index score is the
\* expires_at_epoch of the entry's payload, whatever the interleaving of
\* manual, automatic and one-click blocks was.
C33_IndexMatchesEntry ==
    BlocksQuiescent =>
        \A ip \in IPs :
            (blk[ip].present /\ blk_index[ip] # NULL) =>
                blk_index[ip] = blk[ip].meta.expires_at_epoch

C33_Witness ==
    /\ BlocksQuiescent
    /\ \E a, b \in AdmIds :
         /\ adm[a].op = "block" /\ adm[a].status = "blocked"
         /\ adm[b].op \in AutoEntries /\ adm[b].status = "200"
         /\ \E n \in 1..Len(adm[b].written) : adm[b].written[n] = "ip1"
         /\ adm[a].created_at_epoch = 0
         /\ adm[a].t_write > 0
         /\ blk["ip1"].present
         /\ blk["ip1"].meta.block_id = adm[a].block_id
         /\ blk_index["ip1"] = adm[a].expires_at_epoch
         /\ \E n \in 1..Len(adm[b].blocked) :
              /\ adm[b].blocked[n].client_ip = "ip1"
              /\ adm[b].blocked[n].expires_at_epoch > adm[a].expires_at_epoch


\* ------------------------------------------------------------ one event per block write
\* the actor each entry point puts on its events
ActorOf(op) == IF op = "block" THEN "admin_api" ELSE op

\* the block events that carry these values
BlockEventsWith(ip, id, expires, actor) ==
    {n \in 1..Len(blk_events) :
        /\ blk_events[n].event_type = "block"
        /\ blk_events[n].client_ip = ip
        /\ blk_events[n].block_id = id
        /\ blk_events[n].expires_at_epoch = expires
        /\ blk_events[n].actor = actor}

\* the block ids operation a has written to the store
WrittenIds(a) ==
    IF adm[a].t_write = NULL THEN {}
    ELSE IF adm[a].op = "block" THEN {adm[a].block_id}
    ELSE {block_id_of(a, k) : k \in 1..Len(adm[a].suspects)} \cap
         ({adm[a].blocked[n].block_id : n \in 1..Len(adm[a].blocked)}
            \cup {adm[a].block_id})

\* C34: once the block operations have ended, every block write has exactly
\* one block event with the same client_ip, block_id and expires_at_epoch and
\* the actor of its entry point, also when the operation failed or was
\* cancelled part-way: no block entry is left without its event.
C34_EveryWriteHasItsEvent ==
    BlocksQuiescent =>
        /\ \A a \in AdmIds : \A id \in WrittenIds(a) :
              Cardinality({n \in 1..Len(blk_events) :
                             /\ blk_events[n].event_type = "block"
                             /\ blk_events[n].block_id = id
                             /\ blk_events[n].actor = ActorOf(adm[a].op)}) = 1
        /\ \A ip \in IPs : blk[ip].present =>
              \E a \in AdmIds :
                  BlockEventsWith(ip, blk[ip].meta.block_id,
                                  blk[ip].meta.expires_at_epoch,
                                  ActorOf(adm[a].op)) # {}


\* ------------------------------------------------------------ the closed set of reason codes
\* the code section 4.3 has stored for a requested code
StoredCodeFor(requested) ==
    IF requested \in {"manual", "operator_action", "auto_unauth_401_surge",
                      "one_click_suspects"}
    THEN requested ELSE "manual"

\* the block ids operation a mints
IdsOf(a) ==
    IF adm[a].op = "block" THEN {adm[a].block_id}
    ELSE {block_id_of(a, k) : k \in 1..Len(adm[a].suspects)}

\* C35: every block entry and every block event carries a reason_code of the
\* closed set {manual, operator_action, auto_unauth_401_surge,
\* one_click_suspects}; a requested code outside the set is stored as manual,
\* in the entry's payload, in the event and in the response alike.
C35_ReasonCodeClosedSet ==
    /\ \A ip \in IPs : blk[ip].present =>
          /\ blk[ip].meta.reason_code \in
                {"manual", "operator_action", "auto_unauth_401_surge", "one_click_suspects"}
          /\ \A a \in AdmIds : blk[ip].meta.block_id \in IdsOf(a) =>
                blk[ip].meta.reason_code = StoredCodeFor(adm[a].requested_code)
    /\ \A n \in 1..Len(blk_events) : blk_events[n].event_type = "block" =>
          /\ blk_events[n].reason_code \in
                {"manual", "operator_action", "auto_unauth_401_surge", "one_click_suspects"}
          /\ \A a \in AdmIds : blk_events[n].block_id \in IdsOf(a) =>
                blk_events[n].reason_code = StoredCodeFor(adm[a].requested_code)
    /\ \A a \in AdmIds :
          /\ adm[a].status = "blocked" =>
                adm[a].resp_reason_code = StoredCodeFor(adm[a].requested_code)
          /\ \A n \in 1..Len(adm[a].blocked) :
                adm[a].blocked[n].reason_code = StoredCodeFor(adm[a].requested_code)

C35_Witness ==
    \E a, b \in AdmIds :
        /\ adm[a].op = "block" /\ adm[a].requested_code = "bogus"
        /\ adm[a].status = "blocked" /\ adm[a].resp_reason_code = "manual"
        /\ blk["ip1"].present /\ blk["ip1"].meta.block_id = adm[a].block_id
        /\ blk["ip1"].meta.reason_code = "manual"
        /\ \E n \in 1..Len(blk_events) :
              /\ blk_events[n].block_id = adm[a].block_id
              /\ blk_events[n].reason_code = "manual"
        /\ adm[b].op = "auto_block" /\ adm[b].requested_code = "bogus"
        /\ adm[b].status = "200" /\ ~adm[b].dry_run
        /\ Len(adm[b].blocked) > 0
        /\ \E n \in 1..Len(blk_events) :
              /\ blk_events[n].actor = "auto_block"
              /\ blk_events[n].reason_code = "manual"


\* ------------------------------------------------------------ the two readers agree
\* the stored text is a JSON object
IsJsonObject(raw) == json_loads(raw).ok /\ json_loads(raw).is_dict

\* C36: the gateway's reader and the admin reader both accept a legacy plain
\* string as reason = the string, reason_code = manual, and for every stored
\* value (a JSON object, a plain string, a plain string that is valid
\* non-object JSON such as a number) they return the same reason and
\* reason_code.
C36_ReadersAgree ==
    /\ \A i \in ReqIds : \A a \in AdmIds :
          (req[i].pc = "done" /\ adm[a].pc = "done") =>
              /\ req[i].meta.reason = adm[a].raw.reason
              /\ req[i].meta.reason_code = adm[a].raw.reason_code
    /\ \A i \in ReqIds :
          (req[i].pc = "done" /\ ~IsJsonObject(blk[req[i].ip].raw)) =>
              req[i].meta = LegacyDict(blk[req[i].ip].raw)
    /\ \A a \in AdmIds :
          (adm[a].pc = "done" /\ ~IsJsonObject(blk[adm[a].ip].raw)) =>
              adm[a].raw = LegacyDict(blk[adm[a].ip].raw)


\* ------------------------------------------------------------ expired_recently
\* C37: every entry the blocks report lists under expired_recently was read
\* with its key absent and has expired_at_epoch within [now - lookback, now],
\* the lower end counted from the report's now_epoch and the upper end being
\* the second in which the entry is classified; an index member whose score
\* lies in the future and whose key is absent is not listed there.
C37_ExpiredRecentlyInWindow ==
    [][\A a \in AdmIds :
         (adm[a].pc = "rep_zscore" /\ adm'[a].pc # "rep_zscore"
            /\ Len(adm'[a].expired_recently) > Len(adm[a].expired_recently)) =>
         LET e == adm'[a].expired_recently[Len(adm'[a].expired_recently)] IN
         /\ ~adm[a].raw.present
         /\ e.expired_at_epoch >= adm[a].t - adm[a].lookback_minutes * 60
         /\ e.expired_at_epoch <= now]_vars


\* ------------------------------------------------------------ concurrent revokes
\* the finished revoke calls on credential k that wrote revoked_at
RevokeWriters(k) == {a \in Revokes(k) : adm[a].status = "revoked"}

\* C38: whatever the interleaving of concurrent revokes of one credential,
\* exactly one of them returns "revoked" and the others return
\* "already_revoked"; revoked_at is written exactly once.
C38_OneRevokeWins ==
    \A k \in KeyIds :
        /\ Cardinality(RevokeWriters(k)) <= 1
        /\ (RevokeCalls(k) # {} /\ Revokes(k) = RevokeCalls(k)) =>
              /\ Cardinality(RevokeWriters(k)) = 1
              /\ \A a \in Revokes(k) \ RevokeWriters(k) :
                    adm[a].status = "already_revoked"


====
